---- MODULE Spec2Model ----
(***************************************************************************)
(* Verification model of the numerical core of Temporal-Semantic-Manifold: *)
(*   src/src/utils/eigendecomposition.ts   computeEigendecomposition,      *)
(*                                         cosineSimilarity, clamp,        *)
(*                                         seededRandom, projectTo3D       *)
(*   src/src/components/manifold-scene.tsx computeEllipsoidGeometry        *)
(*                                                                         *)
(* JavaScript numbers are modelled as a reduced IEEE-754 format: a finite  *)
(* value is a fixed-point integer v standing for v / Scale, with           *)
(* |v| <= MaxFinite; a result beyond MaxFinite overflows to +-Infinity,    *)
(* a result below the resolution rounds to 0, and NaN propagates as in     *)
(* IEEE-754.  Signed zeros are not distinguished.                          *)
(***************************************************************************)
EXTENDS Integers, Sequences, FiniteSets, TLC

\* ------------------------------------------------------------------------
\* The number format
\* ------------------------------------------------------------------------
Scale == 10 ^ 4
MaxWhole == 5 * (10 ^ 4)
MaxFinite == MaxWhole * Scale

NaN == [t |-> "nan", v |-> 0]
PInf == [t |-> "inf", v |-> 1]
NInf == [t |-> "inf", v |-> -1]
Fin(v) == [t |-> "fin", v |-> v]

\* n / d as a number of the format, for the literals of the source
Lit(n, d) == Fin((n * Scale) \div d)
Zero == Fin(0)
One == Fin(Scale)

IsNaN(x) == x.t = "nan"
IsInf(x) == x.t = "inf"
IsFiniteNum(x) == x.t = "fin"

AbsInt(i) == IF i < 0 THEN -i ELSE i
SgnInt(i) == IF i < 0 THEN -1 ELSE IF i > 0 THEN 1 ELSE 0
\* sign of a non-NaN number: -1, 0 or 1
Sgn(x) == SgnInt(x.v)
SignedInf(s) == IF s < 0 THEN NInf ELSE PInf

\* a computed integer result, overflowing to an infinity
Norm(v) == IF v > MaxFinite THEN PInf ELSE IF v < -MaxFinite THEN NInf ELSE Fin(v)

Neg(x) == IF IsNaN(x) THEN NaN ELSE [t |-> x.t, v |-> -x.v]

Add(x, y) ==
  IF IsNaN(x) \/ IsNaN(y) THEN NaN
  ELSE IF IsInf(x) /\ IsInf(y) THEN (IF x.v = y.v THEN x ELSE NaN)
  ELSE IF IsInf(x) THEN x
  ELSE IF IsInf(y) THEN y
  ELSE Norm(x.v + y.v)

Sub(x, y) == Add(x, Neg(y))

\* a * b / Scale for magnitudes a, b <= MaxFinite, rounded to nearest;
\* -1 stands for a result beyond MaxFinite
MulMag(a, b) ==
  LET ah == a \div Scale
      al == a % Scale
      bh == b \div Scale
      bl == b % Scale
  IN IF ah > 0 /\ bh > MaxWhole \div ah THEN -1
     ELSE LET low == al * bl
              r == ah * bh * Scale + ah * bl + al * bh + (low \div Scale)
                     + (IF 2 * (low % Scale) >= Scale THEN 1 ELSE 0)
          IN IF r > MaxFinite THEN -1 ELSE r

Mul(x, y) ==
  IF IsNaN(x) \/ IsNaN(y) THEN NaN
  ELSE IF IsInf(x) \/ IsInf(y)
       THEN (IF Sgn(x) = 0 \/ Sgn(y) = 0 THEN NaN ELSE SignedInf(Sgn(x) * Sgn(y)))
  ELSE LET m == MulMag(AbsInt(x.v), AbsInt(y.v))
       IN IF m < 0 THEN SignedInf(Sgn(x) * Sgn(y)) ELSE Fin(Sgn(x) * Sgn(y) * m)

\* one decimal digit of a long division: <<quotient so far, remainder>>
RECURSIVE DivDigits(_, _, _, _)
DivDigits(q, r, b, k) ==
  IF k = 0 THEN <<q, r>>
  ELSE DivDigits(q * 10 + ((r * 10) \div b), (r * 10) % b, b, k - 1)

\* a * Scale / b for magnitudes a <= MaxFinite, 0 < b <= MaxFinite, rounded to
\* nearest; -1 stands for a result beyond MaxFinite
DivMag(a, b) ==
  LET big == b > 2 * (10 ^ 8)
      aa == IF big THEN a \div 10 ELSE a
      bb == IF big THEN b \div 10 ELSE b
      q0 == aa \div bb
  IN IF q0 > MaxWhole THEN -1
     ELSE LET qr == DivDigits(q0, aa % bb, bb, 4)
              r == qr[1] + (IF 2 * qr[2] >= bb THEN 1 ELSE 0)
          IN IF r > MaxFinite THEN -1 ELSE r

Div(x, y) ==
  IF IsNaN(x) \/ IsNaN(y) THEN NaN
  ELSE IF IsInf(x) THEN (IF IsInf(y) THEN NaN
                         ELSE SignedInf(x.v * (IF y.v < 0 THEN -1 ELSE 1)))
  ELSE IF IsInf(y) THEN Zero
  ELSE IF y.v = 0 THEN (IF x.v = 0 THEN NaN ELSE SignedInf(x.v))
  ELSE LET m == DivMag(AbsInt(x.v), AbsInt(y.v))
       IN IF m < 0 THEN SignedInf(Sgn(x) * Sgn(y)) ELSE Fin(Sgn(x) * Sgn(y) * m)

\* floor of the square root of a natural number below 2^31, bit by bit
RECURSIVE ISqrtBits(_, _, _)
ISqrtBits(n, res, bit) ==
  IF bit = 0 THEN res
  ELSE LET try == res + bit
       IN ISqrtBits(n, IF try <= 46340 /\ try * try <= n THEN try ELSE res, bit \div 2)
ISqrt(n) == ISqrtBits(n, 0, 32768)

\* Math.sqrt
Sqrt(x) ==
  IF IsNaN(x) THEN NaN
  ELSE IF IsInf(x) THEN (IF x.v > 0 THEN PInf ELSE NaN)
  ELSE IF x.v < 0 THEN NaN
  ELSE IF x.v < 2 * (10 ^ 5) THEN Fin(ISqrt(x.v * Scale))
  ELSE LET r0 == ISqrt(x.v) * 100
       IN Fin((r0 + DivMag(x.v, r0) + 1) \div 2)

\* Math.abs
Abs(x) == IF IsNaN(x) THEN NaN ELSE [t |-> x.t, v |-> AbsInt(x.v)]

\* the comparisons < and >: false whenever an operand is NaN
Key(x) == IF IsInf(x) THEN x.v * (MaxFinite + 1) ELSE x.v
Lt(x, y) == ~IsNaN(x) /\ ~IsNaN(y) /\ Key(x) < Key(y)
Gt(x, y) == Lt(y, x)
Le(x, y) == ~IsNaN(x) /\ ~IsNaN(y) /\ Key(x) <= Key(y)
Ge(x, y) == Le(y, x)
\* ===: NaN is not equal to itself
StrictEq(x, y) == ~IsNaN(x) /\ ~IsNaN(y) /\ x = y

\* Math.max and Math.min: NaN if either argument is NaN
MathMax(x, y) == IF IsNaN(x) \/ IsNaN(y) THEN NaN ELSE IF Lt(x, y) THEN y ELSE x
MathMin(x, y) == IF IsNaN(x) \/ IsNaN(y) THEN NaN ELSE IF Lt(y, x) THEN y ELSE x

\* x || 0 on a number: 0 and NaN are falsy
OrZero(x) == IF IsNaN(x) \/ (IsFiniteNum(x) /\ x.v = 0) THEN Zero ELSE x

\* ------------------------------------------------------------------------
\* Math.sin, Math.cos, Math.atan2, Math.acos at the resolution of the format
\* ------------------------------------------------------------------------
\* a * b / Scale on small integers, rounded to nearest
FxMul(a, b) ==
  LET m == AbsInt(a) * AbsInt(b)
  IN SgnInt(a) * SgnInt(b) * ((m + (Scale \div 2)) \div Scale)

Pi == (31415927 + 500) \div (10 ^ 7 \div Scale)
HalfPi == (15707963 + 500) \div (10 ^ 7 \div Scale)
TwoPi == (62831853 + 500) \div (10 ^ 7 \div Scale)

\* sin r for 0 <= r <= pi/2, by the Taylor polynomial to r^11
SinPoly(r) ==
  LET r2 == FxMul(r, r)
      t5 == Scale - (r2 \div 110)
      t4 == Scale - (FxMul(r2, t5) \div 72)
      t3 == Scale - (FxMul(r2, t4) \div 42)
      t2 == Scale - (FxMul(r2, t3) \div 20)
      t1 == Scale - (FxMul(r2, t2) \div 6)
  IN FxMul(r, t1)

\* sin of an integer angle v / Scale, |v| <= MaxFinite
SinInt(v) ==
  LET w == v % TwoPi
      sgn == IF w > Pi THEN -1 ELSE 1
      h == IF w > Pi THEN w - Pi ELSE w
      r == IF h > HalfPi THEN Pi - h ELSE h
  IN sgn * SinPoly(r)

Sin(x) == IF IsFiniteNum(x) THEN Fin(SinInt(x.v)) ELSE NaN
Cos(x) == IF IsFiniteNum(x) THEN Fin(SinInt(x.v + HalfPi)) ELSE NaN

\* atan z for 0 <= z <= 1 (Abramowitz and Stegun 4.4.47, error below 1e-5)
AtanPoly(z) ==
  LET z2 == FxMul(z, z)
      c9 == (208351 + 500) \div (10 ^ 7 \div Scale)
      c7 == (851330 + 500) \div (10 ^ 7 \div Scale)
      c5 == (1801410 + 500) \div (10 ^ 7 \div Scale)
      c3 == (3302995 + 500) \div (10 ^ 7 \div Scale)
      c1 == (9998660 + 500) \div (10 ^ 7 \div Scale)
      u7 == FxMul(z2, c9) - c7
      u5 == FxMul(z2, u7) + c5
      u3 == FxMul(z2, u5) - c3
      u1 == FxMul(z2, u3) + c1
  IN FxMul(z, u1)

\* atan2 of two finite integers, not both 0
Atan2Int(y, x) ==
  LET ay == AbsInt(y)
      ax == AbsInt(x)
      lo == IF ay < ax THEN ay ELSE ax
      hi == IF ay < ax THEN ax ELSE ay
      t0 == AtanPoly(DivMag(lo, hi))
      t1 == IF ay > ax THEN HalfPi - t0 ELSE t0
      t2 == IF x < 0 THEN Pi - t1 ELSE t1
  IN IF y < 0 THEN -t2 ELSE t2

\* Math.atan2(y, x)
Atan2(y, x) ==
  IF IsNaN(y) \/ IsNaN(x) THEN NaN
  ELSE IF IsInf(y) /\ IsInf(x)
       THEN Fin(y.v * (IF x.v > 0 THEN HalfPi \div 2 ELSE Pi - (HalfPi \div 2)))
  ELSE IF IsInf(y) THEN Fin(y.v * HalfPi)
  ELSE IF IsInf(x) THEN (IF x.v > 0 THEN Zero
                         ELSE Fin((IF y.v < 0 THEN -1 ELSE 1) * Pi))
  ELSE IF y.v = 0 /\ x.v = 0 THEN Zero
  ELSE Fin(Atan2Int(y.v, x.v))

\* ------------------------------------------------------------------------
\* cosineSimilarity (eigendecomposition.ts 134-153)
\* ------------------------------------------------------------------------
\* a[i] of a JavaScript array (i from 1 here): undefined past the end, and
\* undefined || 0 is 0
ElemOrZero(a, i) == IF i <= Len(a) THEN OrZero(a[i]) ELSE Zero

\* one pass of the loop body, lines 142-146, on the accumulators
\* acc = <<dotProduct, normA, normB>>
CosBody(acc, a, b, i) ==
  LET ai == ElemOrZero(a, i)
      bi == ElemOrZero(b, i)
  IN <<Add(acc[1], Mul(ai, bi)), Add(acc[2], Mul(ai, ai)), Add(acc[3], Mul(bi, bi))>>

\* line 135
CosEmptyGuard(a, b) == Len(a) = 0 \/ Len(b) = 0
\* line 149
CosZeroNormGuard(acc) == StrictEq(acc[2], Zero) \/ StrictEq(acc[3], Zero)

\* line 152 as a plausible slip would write it: the quotient returned unclamped
CosClampDropped(similarity) == similarity
\* line 152
CosClamp(similarity) == MathMax(Neg(One), MathMin(One, similarity))

\* lines 151-152
CosQuotient(acc) == CosClamp(Div(acc[1], Mul(Sqrt(acc[2]), Sqrt(acc[3]))))

RECURSIVE CosLoop(_, _, _, _)
CosLoop(acc, a, b, i) ==
  IF i > Len(a) THEN acc ELSE CosLoop(CosBody(acc, a, b, i), a, b, i + 1)

\* the whole function, as projectTo3D calls it
cosineSimilarity(a, b) ==
  IF CosEmptyGuard(a, b) THEN Zero
  ELSE LET acc == CosLoop(<<Zero, Zero, Zero>>, a, b, 1)
       IN IF CosZeroNormGuard(acc) THEN Zero ELSE CosQuotient(acc)

\* ------------------------------------------------------------------------
\* computeEigendecomposition (eigendecomposition.ts 14-109)
\* Matrices are 3-tuples of rows; the source's indices 0..2 are 1..3 here.
\* ------------------------------------------------------------------------
EPSILON == 1          \* 1e-10, rounded up to the resolution: for a value x of
                      \* the format, x < 1e-10 exactly when x.v < EPSILON
MAX_ITERATIONS == 50

Two == Fin(2 * Scale)
Half == Fin(Scale \div 2)

Identity3 == <<<<One, Zero, Zero>>, <<Zero, One, Zero>>, <<Zero, Zero, One>>>>

\* lines 40-45: one comparison of the pivot search
PivotStep(st, a, i, j) ==
  LET absVal == Abs(a[i][j])
  IN IF Gt(absVal, st.maxVal) THEN [maxVal |-> absVal, p |-> i, q |-> j] ELSE st

\* lines 34-47 with the search left out: the initial pair (0, 1) is the pivot
FindPivotFirst(a) == [maxVal |-> Abs(a[1][2]), p |-> 1, q |-> 2]

\* lines 34-47
FindPivot(a) ==
  PivotStep(PivotStep(PivotStep([maxVal |-> Zero, p |-> 1, q |-> 2], a, 1, 2), a, 1, 3),
            a, 2, 3)

\* line 50 with the threshold lost: maxVal < 0 never holds
ConvergedBelowZero(a) == Lt(FindPivot(a).maxVal, Zero)
\* line 50
Converged(a) == Lt(FindPivot(a).maxVal, Fin(EPSILON))

\* lines 53-54
RotationAngle(a, p, q) ==
  Mul(Half, Atan2(Mul(Two, a[p][q]), Sub(a[q][q], a[p][p])))

\* lines 59-77: the rotated working matrix
RotateMatrix(a, p, q, c, s) ==
  LET app == a[p][p]
      aqq == a[q][q]
      apq == a[p][q]
      cross == Mul(Mul(Mul(Two, s), c), apq)
      npp == Add(Sub(Mul(Mul(c, c), app), cross), Mul(Mul(s, s), aqq))
      nqq == Add(Add(Mul(Mul(s, s), app), cross), Mul(Mul(c, c), aqq))
      nip(i) == Sub(Mul(c, a[i][p]), Mul(s, a[i][q]))
      niq(i) == Add(Mul(s, a[i][p]), Mul(c, a[i][q]))
  IN [i \in 1..3 |-> [j \in 1..3 |->
        IF i = p /\ j = p THEN npp
        ELSE IF i = q /\ j = q THEN nqq
        ELSE IF (i = p /\ j = q) \/ (i = q /\ j = p) THEN Zero
        ELSE IF j = p THEN nip(i)
        ELSE IF i = p THEN nip(j)
        ELSE IF j = q THEN niq(i)
        ELSE IF i = q THEN niq(j)
        ELSE a[i][j]]]

\* lines 80-85 with the rotation applied the other way round
RotateVectorsTransposed(v, p, q, c, s) ==
  [i \in 1..3 |-> [j \in 1..3 |->
     IF j = p THEN Add(Mul(c, v[i][p]), Mul(s, v[i][q]))
     ELSE IF j = q THEN Sub(Mul(c, v[i][q]), Mul(s, v[i][p]))
     ELSE v[i][j]]]
\* lines 80-85: the rotated accumulator
RotateVectors(v, p, q, c, s) ==
  [i \in 1..3 |-> [j \in 1..3 |->
     IF j = p THEN Sub(Mul(c, v[i][p]), Mul(s, v[i][q]))
     ELSE IF j = q THEN Add(Mul(s, v[i][p]), Mul(c, v[i][q]))
     ELSE v[i][j]]]

\* THREE.Vector3.normalize: the vector times 1 / (length || 1)
Normalize3(w) ==
  LET len == Sqrt(Add(Add(Mul(w[1], w[1]), Mul(w[2], w[2])), Mul(w[3], w[3])))
      inv == Div(One, IF IsNaN(len) \/ len = Zero THEN One ELSE len)
  IN <<Mul(w[1], inv), Mul(w[2], inv), Mul(w[3], inv)>>

\* lines 93-95: column k of the accumulator, normalized
Column(v, k) == <<v[1][k], v[2][k], v[3][k]>>
EigenvectorOf(v, k) == Normalize3(Column(v, k))

Perms3 == {<<1, 2, 3>>, <<1, 3, 2>>, <<2, 1, 3>>, <<2, 3, 1>>, <<3, 1, 2>>, <<3, 2, 1>>}

\* line 103: the comparator (a, b) => b.value - a.value as sort reads it:
\* negative, zero or positive, a NaN result counting as zero
CompareDesc(x, y) ==
  LET d == Sub(y, x) IN IF IsNaN(d) THEN 0 ELSE Sgn(d)

\* a consistent comparison function in the sense of Array.prototype.sort
ConsistentCompare(vals) ==
  \A i, j, k \in 1..3 :
     /\ (CompareDesc(vals[i], vals[j]) = 0 /\ CompareDesc(vals[j], vals[k]) = 0)
          => CompareDesc(vals[i], vals[k]) = 0
     /\ (CompareDesc(vals[i], vals[j]) <= 0 /\ CompareDesc(vals[j], vals[k]) < 0)
          => CompareDesc(vals[i], vals[k]) < 0
     /\ (CompareDesc(vals[i], vals[j]) < 0 /\ CompareDesc(vals[j], vals[k]) <= 0)
          => CompareDesc(vals[i], vals[k]) < 0

\* the sort that loses the pairing: the original order is returned unsorted
SortKeepsInputOrder(vals) == {<<1, 2, 3>>}
\* line 103: the orders sort may return, as the sequence of original indices:
\* the stable sorted order, or any order when the comparator is not consistent
SortOutcomes(vals) ==
  IF ConsistentCompare(vals)
  THEN {pm \in Perms3 : \A k, l \in 1..3 :
          k < l => \/ CompareDesc(vals[pm[k]], vals[pm[l]]) < 0
                   \/ (CompareDesc(vals[pm[k]], vals[pm[l]]) = 0 /\ pm[k] < pm[l])}
  ELSE Perms3

\* ------------------------------------------------------------------------
\* computeEllipsoidGeometry (manifold-scene.tsx 70-148)
\* A member is its position, a 3-tuple of numbers.
\* ------------------------------------------------------------------------
EllEPSILON == Lit(5, 100)
MIN_RADIUS == Lit(2, 1)
SCALE_FACTOR == Lit(7, 1)
FATNESS_FACTOR == Lit(16, 10)

\* a count as a number
Num(n) == Fin(n * Scale)

\* lines 82-89: the reduce that sums the positions
RECURSIVE SumPositions(_, _, _)
SumPositions(members, k, acc) ==
  IF k > Len(members) THEN acc
  ELSE SumPositions(members, k + 1,
                    <<Add(acc[1], members[k][1]), Add(acc[2], members[k][2]),
                      Add(acc[3], members[k][3])>>)

\* lines 82-92
Centroid(members) ==
  LET sum == SumPositions(members, 1, <<Zero, Zero, Zero>>)
      n == Num(Len(members))
  IN <<Div(sum[1], n), Div(sum[2], n), Div(sum[3], n)>>

\* lines 101-112: the six accumulated entries <<xx, xy, xz, yy, yz, zz>>
RECURSIVE CovSums(_, _, _, _)
CovSums(members, centroid, k, acc) ==
  IF k > Len(members) THEN acc
  ELSE LET dx == Sub(members[k][1], centroid[1])
           dy == Sub(members[k][2], centroid[2])
           dz == Sub(members[k][3], centroid[3])
       IN CovSums(members, centroid, k + 1,
                  <<Add(acc[1], Mul(dx, dx)), Add(acc[2], Mul(dx, dy)),
                    Add(acc[3], Mul(dx, dz)), Add(acc[4], Mul(dy, dy)),
                    Add(acc[5], Mul(dy, dz)), Add(acc[6], Mul(dz, dz))>>)

\* lines 95-123: the regularized covariance matrix
Covariance(members, centroid) ==
  LET acc == CovSums(members, centroid, 1,
                     <<EllEPSILON, Zero, Zero, EllEPSILON, Zero, EllEPSILON>>)
      n == Num(Len(members))
      xx == Div(acc[1], n)
      xy == Div(acc[2], n)
      xz == Div(acc[3], n)
      yy == Div(acc[4], n)
      yz == Div(acc[5], n)
      zz == Div(acc[6], n)
  IN <<<<xx, xy, xz>>, <<xy, yy, yz>>, <<xz, yz, zz>>>>

\* lines 130-132 without the minimum floor
RadiusNoFloor(eigenvalue) ==
  Mul(Mul(Sqrt(Abs(eigenvalue)), SCALE_FACTOR), FATNESS_FACTOR)
\* lines 130-132: one radius from one eigenvalue
Radius(eigenvalue) ==
  Mul(MathMax(Mul(Sqrt(Abs(eigenvalue)), SCALE_FACTOR), MIN_RADIUS), FATNESS_FACTOR)

\* lines 139-141 with the check left out
SafetyDropped(radius) == radius
\* lines 139-141: the safety check on one radius
Safety(radius) == IF IsFiniteNum(radius) THEN radius ELSE MIN_RADIUS

\* createRotationMatrix, lines 114-120: makeBasis puts the three vectors into
\* the columns; rotation[i][k] is component i of eigenvectors[k]
createRotationMatrix(eigenvectors) ==
  [i \in 1..3 |-> [k \in 1..3 |-> eigenvectors[k][i]]]

\* ------------------------------------------------------------------------
\* seededRandom (eigendecomposition.ts 166-171)
\* The seed is an integer-valued double, kept here as an exact integer s with
\* |s| < 2^31, or NaN.  seed * 1103515245 + 12345 is computed as the double
\* arithmetic computes it: the exact product and the exact sum are each
\* rounded to 53 significant bits (to nearest, ties to even), and % keeps the
\* sign of the dividend.  Wide integers are four limbs of 16 bits,
\* <<l0, l1, l2, l3>> standing for l0 + l1 * 2^16 + l2 * 2^32 + l3 * 2^48.
\* ------------------------------------------------------------------------
Limb == 2 ^ 16
LcgMul == 1103515245
LcgMulHi == LcgMul \div Limb
LcgMulLo == LcgMul % Limb
LcgInc == 12345

\* carries (or borrows) propagated upwards
Carry(w) ==
  LET c0 == w[1] \div Limb
      m1 == w[2] + c0
      c1 == m1 \div Limb
      m2 == w[3] + c1
      c2 == m2 \div Limb
  IN <<w[1] % Limb, m1 % Limb, m2 % Limb, w[4] + c2>>

\* m * 1103515245 for 0 <= m < 2^31, exactly
LcgProduct(m) ==
  LET m1 == m \div Limb
      m0 == m % Limb
  IN Carry(<<m0 * LcgMulLo, m1 * LcgMulLo + m0 * LcgMulHi, m1 * LcgMulHi, 0>>)

RECURSIVE BitLen(_)
BitLen(n) == IF n = 0 THEN 0 ELSE 1 + BitLen(n \div 2)

\* the number of low bits a double cannot hold of a wide integer below 2^62
LostBits(w) == IF w[4] < 32 THEN 0 ELSE BitLen(w[4]) - 5

\* a wide integer rounded to 53 significant bits, to nearest, ties to even
RoundToDouble(w) ==
  LET k == LostBits(w)
      unit == 2 ^ k
      rest == w[1] % unit
      down == w[1] - rest
      odd == (down \div unit) % 2 = 1
      up == 2 * rest > unit \/ (2 * rest = unit /\ odd)
  IN IF k = 0 THEN w
     ELSE Carry(<<IF up THEN down + unit ELSE down, w[2], w[3], w[4]>>)

\* the low 31 bits of a wide integer: w % 2147483648
Low31(w) == (w[2] % (2 ^ 15)) * Limb + w[1]

IsZeroWide(w) == w = <<0, 0, 0, 0>>

NaNSeed == [t |-> "nan", v |-> 0]
IntSeed(s) == [t |-> "int", v |-> s]

\* line 168 with % taken as the mathematical modulo, never negative
LcgStepEuclidean(seed) ==
  IF seed.t = "nan" THEN NaNSeed
  ELSE LET m == AbsInt(seed.v)
           r1 == RoundToDouble(LcgProduct(m))
           q == IF seed.v >= 0 \/ IsZeroWide(r1)
                THEN Carry(<<r1[1] + LcgInc, r1[2], r1[3], r1[4]>>)
                ELSE Carry(<<r1[1] - LcgInc, r1[2], r1[3], r1[4]>>)
           low == Low31(RoundToDouble(q))
       IN IF seed.v >= 0 \/ IsZeroWide(r1) \/ low = 0 THEN IntSeed(low)
          ELSE IntSeed(((2 ^ 30) - low) + (2 ^ 30))
\* line 168: the next seed
LcgStep(seed) ==
  IF seed.t = "nan" THEN NaNSeed
  ELSE LET m == AbsInt(seed.v)
           r1 == RoundToDouble(LcgProduct(m))
           \* a negative product plus 12345 stays negative unless it is 0
           q == IF seed.v >= 0 \/ IsZeroWide(r1)
                THEN Carry(<<r1[1] + LcgInc, r1[2], r1[3], r1[4]>>)
                ELSE Carry(<<r1[1] - LcgInc, r1[2], r1[3], r1[4]>>)
           low == Low31(RoundToDouble(q))
       IN IF seed.v >= 0 \/ IsZeroWide(r1) THEN IntSeed(low) ELSE IntSeed(-low)

\* line 169: seed / 2147483648 as a number of the format, rounded towards 0
\* so that a quotient below 1 stays below 1
LcgValue(seed) ==
  IF seed.t = "nan" THEN NaN
  ELSE Fin(SgnInt(seed.v) * (((AbsInt(seed.v) \div (2 ^ 17)) * Scale) \div (2 ^ 14)))

\* ------------------------------------------------------------------------
\* projectTo3D (eigendecomposition.ts 128-129, 158-161, 177-301)
\* ------------------------------------------------------------------------
MAX_COORD == Lit(15, 1)
MIN_DIST == Lit(1, 10)
iterations == 150
baseAttraction == Lit(2, 100)
baseRepulsion == Lit(8, 10)

\* Math.acos: NaN outside [-1, 1]
Acos(x) ==
  IF ~IsFiniteNum(x) \/ AbsInt(x.v) > Scale THEN NaN
  ELSE IF x.v = Scale THEN Zero
  ELSE Fin(Atan2Int(ISqrt(Scale * Scale - x.v * x.v), x.v))

\* lines 158-161 without the finiteness check
clampUnchecked(val, min, max) == MathMax(min, MathMin(max, val))
\* lines 158-161
clamp(val, min, max) ==
  IF ~IsFiniteNum(val) THEN Zero ELSE MathMax(min, MathMin(max, val))

\* lines 185-187: the reduce from 42 over the vectors
RECURSIVE SeedSum(_, _, _)
SeedSum(embeddings, k, acc) ==
  IF k > Len(embeddings) THEN acc
  ELSE SeedSum(embeddings, k + 1,
               Add(Add(Add(acc, ElemOrZero(embeddings[k], 1)),
                       ElemOrZero(embeddings[k], 2)),
                   Num(Len(embeddings[k]))))

\* line 188: Math.floor(seed * 1000), the generator's first seed; an infinite
\* seed is NaN from the first % on
SeedFrom(x) ==
  IF IsFiniteNum(x) THEN IntSeed(x.v \div (Scale \div 1000)) ELSE NaNSeed

\* the generator shared by all calls: a call after the first goes on from the
\* seed the call before it left behind
SeedCarriedOver(embeddings, leftover) ==
  IF leftover.t = "none" THEN SeedFrom(SeedSum(embeddings, 1, Num(42))) ELSE leftover
\* lines 185-188: the generator of a call is seeded from its argument alone
SeedForCall(embeddings, leftover) == SeedFrom(SeedSum(embeddings, 1, Num(42)))

\* one more call of random(): the seeds so far and the next one
Drawn(seeds) == Append(seeds, LcgStep(seeds[Len(seeds)]))

\* the seeds after the three calls of random() of lines 193-195
ThreeDraws(seed) == Drawn(Drawn(<<LcgStep(seed)>>))

\* lines 196-200
SphereShell(theta, phi, r) ==
  <<Mul(Mul(r, Sin(phi)), Cos(theta)),
    Mul(Mul(r, Sin(phi)), Sin(theta)),
    Mul(r, Cos(phi))>>

\* lines 193-195: theta, phi and r from the three draws
ShellPoint(seeds) ==
  [seed |-> seeds[3],
   position |-> SphereShell(Mul(Mul(LcgValue(seeds[1]), Two), Fin(Pi)),
                            Acos(Sub(Mul(Two, LcgValue(seeds[2])), One)),
                            Add(Lit(3, 1), Mul(LcgValue(seeds[3]), Lit(7, 1))))]

\* lines 193-200: one point on the sphere shell, from three draws
InitialPosition(seed) == ShellPoint(ThreeDraws(seed))

\* lines 204-214
Similarities(embeddings) ==
  [i \in 1..Len(embeddings) |-> [j \in 1..Len(embeddings) |->
     IF i = j THEN One ELSE cosineSimilarity(embeddings[i], embeddings[j])]]

\* line 236: Math.sqrt(distSq) || MIN_DIST
DistOf(distSq) ==
  LET root == Sqrt(distSq)
  IN IF IsNaN(root) \/ root = Zero THEN MIN_DIST ELSE root

\* line 242
IdealDist(sim) == Add(Mul(Sub(One, sim), Lit(20, 1)), Two)

Vec3Add(a, b) == <<Add(a[1], b[1]), Add(a[2], b[2]), Add(a[3], b[3])>>
Vec3Sub(a, b) == <<Sub(a[1], b[1]), Sub(a[2], b[2]), Sub(a[3], b[3])>>

\* line 235
DistSq(d) == Add(Add(Mul(d[1], d[1]), Mul(d[2], d[2])), Mul(d[3], d[3]))

\* lines 242-248: attraction plus repulsion
TotalForce(distSq, dist, sim, attractionStrength, repulsionStrength) ==
  Add(Mul(Sub(dist, IdealDist(sim)), attractionStrength),
      Div(Neg(repulsionStrength), Add(distSq, One)))

\* lines 251-258: the force along the unit vector d / dist
Directed(d, dist, totalForce) ==
  <<Mul(Div(d[1], dist), totalForce), Mul(Div(d[2], dist), totalForce),
    Mul(Div(d[3], dist), totalForce)>>

\* lines 236-258, from the difference vector and its squared length
ForceAt(d, distSq, dist, sim, attractionStrength, repulsionStrength) ==
  Directed(d, dist, TotalForce(distSq, dist, sim, attractionStrength, repulsionStrength))

\* lines 235-258, from the difference vector
ForceAlong(d, distSq, sim, attractionStrength, repulsionStrength) ==
  ForceAt(d, distSq, DistOf(distSq), sim, attractionStrength, repulsionStrength)

\* lines 231-258: the force of the pair (i, j) on point i
PairForce(positions, sim, i, j, attractionStrength, repulsionStrength) ==
  ForceAlong(Vec3Sub(positions[j], positions[i]),
             DistSq(Vec3Sub(positions[j], positions[i])),
             sim, attractionStrength, repulsionStrength)

\* lines 229-230: the pairs i < j in the order the loops visit them
RECURSIVE PairsFrom(_, _, _)
PairsFrom(i, j, n) ==
  IF i >= n THEN <<>>
  ELSE IF j > n THEN PairsFrom(i + 1, i + 2, n)
  ELSE <<<<i, j>>>> \o PairsFrom(i, j + 1, n)

\* lines 260-265: f added to the force on i and taken from the force on j
AddPair(forces, i, j, f) ==
  [forces EXCEPT ![i] = Vec3Add(@, f), ![j] = Vec3Sub(@, f)]

\* lines 229-267 over all pairs: forces accumulated from the given positions
RECURSIVE Accumulate(_, _, _, _, _, _)
Accumulate(forces, pairs, positions, similarities, att, rep) ==
  IF pairs = <<>> THEN forces
  ELSE Accumulate(AddPair(forces, Head(pairs)[1], Head(pairs)[2],
                          PairForce(positions,
                                    similarities[Head(pairs)[1]][Head(pairs)[2]],
                                    Head(pairs)[1], Head(pairs)[2], att, rep)),
                  Tail(pairs), positions, similarities, att, rep)

\* line 223
Decay(iter) == Sub(One, Div(Num(iter), Num(iterations)))

\* lines 224-267 with the decay of the pass
ForcesWith(positions, similarities, decay) ==
  Accumulate([i \in 1..Len(positions) |-> <<Zero, Zero, Zero>>],
             PairsFrom(1, 2, Len(positions)), positions, similarities,
             Mul(baseAttraction, decay), Mul(baseRepulsion, decay))

\* lines 223-267: the force buffer of pass iter
Forces(positions, similarities, iter) ==
  ForcesWith(positions, similarities, Decay(iter))

\* lines 272-278 with the net force added as it is, only the sum clamped
MoveCoordUnclampedForce(p, f) ==
  clamp(Add(p, f), Neg(MAX_COORD), MAX_COORD)

\* lines 272-278 for one coordinate
MoveCoord(p, f) ==
  clamp(Add(p, clamp(f, Neg(Two), Two)), Neg(MAX_COORD), MAX_COORD)

\* lines 270-279 with every point moved as its successor in the list
ApplyForcesRotated(positions, forces) ==
  [i \in 1..Len(positions) |-> [k \in 1..3 |->
     MoveCoord(positions[(i % Len(positions)) + 1][k],
               forces[(i % Len(positions)) + 1][k])]]
\* lines 270-279
ApplyForces(positions, forces) ==
  [i \in 1..Len(positions) |-> [k \in 1..3 |-> MoveCoord(positions[i][k], forces[i][k])]]

\* lines 283-291
RECURSIVE SumCoord(_, _, _, _)
SumCoord(positions, k, i, acc) ==
  IF i > Len(positions) THEN acc
  ELSE SumCoord(positions, k, i + 1, Add(acc, positions[i][k]))
LayoutCentre(positions) ==
  [k \in 1..3 |-> Div(SumCoord(positions, k, 1, Zero), Num(Len(positions)))]

\* lines 294-298 with the centre left where it is: the clamp alone
ShiftedByNothing(positions, c) ==
  [i \in 1..Len(positions) |-> [k \in 1..3 |->
     clamp(positions[i][k], Neg(MAX_COORD), MAX_COORD)]]

\* lines 294-298
ShiftedBy(positions, c) ==
  [i \in 1..Len(positions) |-> [k \in 1..3 |->
     clamp(Sub(positions[i][k], c[k]), Neg(MAX_COORD), MAX_COORD)]]

\* lines 283-298
Centered(positions) == ShiftedBy(positions, LayoutCentre(positions))

\* the early returns taken for the sizes 0 and 1 only
IsDegenerateBelowTwo(n) == n <= 1
\* lines 180-182: the three early returns
IsDegenerate(n) == n = 0 \/ n = 1 \/ n = 2

\* lines 180-182: the closed forms of the sizes below 3
ClosedForm(n) ==
  IF n = 0 THEN <<>>
  ELSE IF n = 1 THEN <<<<Zero, Zero, Zero>>>>
  ELSE <<<<Num(-5), Zero, Zero>>, <<Num(5), Zero, Zero>>>>

\* ------------------------------------------------------------------------
\* State
\* ------------------------------------------------------------------------
VARIABLES
  cs,   \* one call of cosineSimilarity: its arguments, loop position,
        \* accumulators and return value
  eg,   \* one call of computeEigendecomposition: the argument matrix, the
        \* working copy a, the accumulator v, the loop counter and the result
  el,   \* one call of computeEllipsoidGeometry: the members, the centroid,
        \* the covariance matrix and the returned geometry
  pj,   \* the calls of projectTo3D: the argument, the generator's seed, the
        \* positions, similarities and forces, the pass counter and the result
  projectionCache,
        \* page.tsx: the module-level cache of projections and the calls of
        \* buildGeneratedSlice that fill it
  hook, \* useGeneratedData: the topic, the refs, the React state and the
        \* fetches it has started
  gen   \* POST /api/generate: the rows of the database and the requests
        \* being handled

vars == <<cs, eg, el, pj, projectionCache, hook, gen>>

\* the state outside the numerical core
web == <<projectionCache, hook, gen>>

Idle == [pc |-> "idle"]

WebIdle ==
  /\ projectionCache = Idle
  /\ hook = Idle
  /\ gen = Idle

\* ------------------------------------------------------------------------
\* cosineSimilarity, statement by statement
\* ------------------------------------------------------------------------
\* longest argument vector of a call
MaxDim == 2
\* a finite entry whose square is beyond the largest finite number (as 1e200
\* is for a double), while its products with the other entries are finite
Big == Fin(1000 * Scale)
CosEntries == {Zero, One, Fin(-2 * Scale), Big, NaN, PInf}

RECURSIVE VectorsOfLen(_, _)
VectorsOfLen(E, n) ==
  IF n = 0 THEN {<<>>}
  ELSE {Append(w, e) : w \in VectorsOfLen(E, n - 1), e \in E}
VectorsUpTo(E, n) == UNION {VectorsOfLen(E, k) : k \in 0..n}

CosInit ==
  /\ WebIdle
  /\ eg = Idle
  /\ el = Idle
  /\ pj = Idle
  /\ cs \in {[pc |-> "entry", a |-> a, b |-> b, i |-> 1, acc |-> <<Zero, Zero, Zero>>,
           divided |-> FALSE, ret |-> Zero] :
            a \in VectorsUpTo(CosEntries, MaxDim), b \in VectorsUpTo(CosEntries, MaxDim)}

\* line 135: an empty argument returns 0 at once
CosReturnEmpty ==
  /\ cs.pc = "entry"
  /\ CosEmptyGuard(cs.a, cs.b)
  /\ cs' = [cs EXCEPT !.pc = "done", !.ret = Zero]
  /\ UNCHANGED <<eg, el, pj>>
  /\ UNCHANGED web

\* lines 137-139
CosEnterLoop ==
  /\ cs.pc = "entry"
  /\ ~CosEmptyGuard(cs.a, cs.b)
  /\ cs' = [cs EXCEPT !.pc = "loop"]
  /\ UNCHANGED <<eg, el, pj>>
  /\ UNCHANGED web

\* lines 141-147, one iteration
CosIterate ==
  /\ cs.pc = "loop"
  /\ cs.i <= Len(cs.a)
  /\ cs' = [cs EXCEPT !.acc = CosBody(cs.acc, cs.a, cs.b, cs.i), !.i = cs.i + 1]
  /\ UNCHANGED <<eg, el, pj>>
  /\ UNCHANGED web

\* line 149
CosReturnZeroNorm ==
  /\ cs.pc = "loop"
  /\ cs.i > Len(cs.a)
  /\ CosZeroNormGuard(cs.acc)
  /\ cs' = [cs EXCEPT !.pc = "done", !.ret = Zero]
  /\ UNCHANGED <<eg, el, pj>>
  /\ UNCHANGED web

\* lines 151-152
CosDivide ==
  /\ cs.pc = "loop"
  /\ cs.i > Len(cs.a)
  /\ ~CosZeroNormGuard(cs.acc)
  /\ cs' = [cs EXCEPT !.pc = "done", !.ret = CosQuotient(cs.acc), !.divided = TRUE]
  /\ UNCHANGED <<eg, el, pj>>
  /\ UNCHANGED web

CosNext ==
  \/ CosReturnEmpty
  \/ CosEnterLoop
  \/ CosIterate
  \/ CosReturnZeroNorm
  \/ CosDivide

SpecCos == CosInit /\ [][CosNext]_vars

\* ------------------------------------------------------------------------
\* Properties of cosineSimilarity
\* ------------------------------------------------------------------------
AllFinite(a) == \A i \in 1..Len(a) : IsFiniteNum(a[i])
ZeroMagnitude(a) == \A i \in 1..Len(a) : a[i] = Zero
InUnitRange(x) == IsFiniteNum(x) /\ -Scale <= x.v /\ x.v <= Scale

\* C10: for every pair of finite vectors the returned similarity is in
\* [-1, 1], and it is exactly 0, with no division performed, whenever either
\* vector is empty or has zero magnitude.
C10_SimilarityInRange ==
  (cs.pc = "done" /\ AllFinite(cs.a) /\ AllFinite(cs.b)) =>
     /\ InUnitRange(cs.ret)
     /\ (Len(cs.a) = 0 \/ Len(cs.b) = 0 \/ ZeroMagnitude(cs.a) \/ ZeroMagnitude(cs.b))
          => (cs.ret = Zero /\ ~cs.divided)

\* The part of C10 that the code does keep: a zero or empty argument returns
\* 0 without dividing, and a returned finite value is within [-1, 1].
CosZeroCaseHolds ==
  cs.pc = "done" =>
     /\ (Len(cs.a) = 0 \/ Len(cs.b) = 0 \/ ZeroMagnitude(cs.a) \/ ZeroMagnitude(cs.b))
          => (cs.ret = Zero /\ ~cs.divided)
     /\ IsNaN(cs.ret) \/ InUnitRange(cs.ret)

\* ------------------------------------------------------------------------
\* computeEigendecomposition, step by step
\* ------------------------------------------------------------------------
EigDiagEntries == {1, 2, 3}
EigOffEntries == {-1, 0, 2}
\* the magnitudes the argument matrices come in
EigScales == {1, 1000}

SymMatrix(d1, d2, d3, o12, o13, o23) ==
  <<<<Fin(d1), Fin(o12), Fin(o13)>>,
    <<Fin(o12), Fin(d2), Fin(o23)>>,
    <<Fin(o13), Fin(o23), Fin(d3)>>>>

EigInputs ==
  {SymMatrix(k * d1 * Scale, k * d2 * Scale, k * d3 * Scale,
             k * o12 * Scale, k * o13 * Scale, k * o23 * Scale) :
     d1 \in EigDiagEntries, d2 \in EigDiagEntries, d3 \in EigDiagEntries,
     o12 \in EigOffEntries, o13 \in EigOffEntries, o23 \in EigOffEntries,
     k \in EigScales}

\* lines 21-29: the state of a call on entry to the loop
EigEntry(matrix) ==
  [pc |-> "loop", matrix |-> matrix, a |-> matrix, v |-> Identity3, iter |-> 0,
   pivot |-> <<>>, values |-> <<>>, eigenvalues |-> <<>>, eigenvectors |-> <<>>]

EigInit ==
  /\ WebIdle
  /\ cs = Idle
  /\ el = Idle
  /\ pj = Idle
  /\ eg \in {EigEntry(m) : m \in EigInputs}

\* the caller's matrix if the working matrix were the argument itself
CallerMatrixAliased(matrix, a) == a
\* line 22: the working matrix is a copy, row by row, so the caller's matrix
\* is not the array the rotations write
CallerMatrix(matrix, a) == matrix

\* lines 32-86, one iteration that rotates
EigRotate ==
  /\ eg.pc = "loop"
  /\ eg.iter < MAX_ITERATIONS
  /\ ~Converged(eg.a)
  /\ LET pv == FindPivot(eg.a)
         theta == RotationAngle(eg.a, pv.p, pv.q)
         c == Cos(theta)
         s == Sin(theta)
     IN eg' = [eg EXCEPT !.a = RotateMatrix(eg.a, pv.p, pv.q, c, s),
                         !.v = RotateVectors(eg.v, pv.p, pv.q, c, s),
                         !.iter = eg.iter + 1,
                         !.pivot = <<pv.p, pv.q>>,
                         !.matrix = CallerMatrix(eg.matrix,
                                                 RotateMatrix(eg.a, pv.p, pv.q, c, s))]
  /\ UNCHANGED <<cs, el, pj>>
  /\ UNCHANGED web

\* lines 32 and 50: the loop ends, converged or out of iterations
EigLoopExit ==
  /\ eg.pc = "loop"
  /\ ~(eg.iter < MAX_ITERATIONS /\ ~Converged(eg.a))
  /\ eg' = [eg EXCEPT !.pc = "extract"]
  /\ UNCHANGED <<cs, el, pj>>
  /\ UNCHANGED web

\* lines 88-108: read the diagonal, normalize the columns, sort the pairs
EigExtractSort ==
  /\ eg.pc = "extract"
  /\ LET values == <<eg.a[1][1], eg.a[2][2], eg.a[3][3]>>
     IN \E pm \in SortOutcomes(values) :
          eg' = [eg EXCEPT !.pc = "done",
                           !.values = values,
                           !.eigenvalues = <<values[pm[1]], values[pm[2]], values[pm[3]]>>,
                           !.eigenvectors = <<EigenvectorOf(eg.v, pm[1]),
                                              EigenvectorOf(eg.v, pm[2]),
                                              EigenvectorOf(eg.v, pm[3])>>]
  /\ UNCHANGED <<cs, el, pj>>
  /\ UNCHANGED web

EigNext ==
  \/ EigRotate
  \/ EigLoopExit
  \/ EigExtractSort

SpecEig == EigInit /\ [][EigNext]_vars

\* ------------------------------------------------------------------------
\* Properties of computeEigendecomposition
\* ------------------------------------------------------------------------
EigDone == eg.pc = "done"

\* the returned pairs are the diagonal entries of the working matrix and the
\* normalized accumulator columns, taken in the order pm
PairedBy(pm) ==
  \A k \in 1..3 :
     /\ eg.eigenvalues[k] = eg.a[pm[k]][pm[k]]
     /\ eg.eigenvectors[k] = EigenvectorOf(eg.v, pm[k])

\* C5: the three eigenvalues are returned in descending order, and each is
\* returned with the accumulator column of the diagonal position it was read
\* from.
C5_SortedDescendingPaired ==
  EigDone =>
     /\ Ge(eg.eigenvalues[1], eg.eigenvalues[2])
     /\ Ge(eg.eigenvalues[2], eg.eigenvalues[3])
     /\ \E pm \in Perms3 : PairedBy(pm)

\* a call that rotated and whose sort had to reorder the pairs
C5_Witness ==
  /\ EigDone
  /\ eg.iter > 0
  /\ eg.eigenvalues # eg.values
  /\ eg.eigenvalues[1] # eg.eigenvalues[2]

IsDiagonal(m) == \A i, j \in 1..3 : i # j => m[i][j] = Zero
Diag(d1, d2, d3) == SymMatrix(d1 * Scale, d2 * Scale, d3 * Scale, 0, 0, 0)

\* C6: for an argument that is already diagonal no rotation is performed and
\* the result is the diagonal sorted descending, each entry with the standard
\* basis vector of its index; diag(3,2,1) gives [3,2,1] and the standard basis.
C6_DiagonalInput ==
  (EigDone /\ IsDiagonal(eg.matrix)) =>
     /\ eg.iter = 0
     /\ Ge(eg.eigenvalues[1], eg.eigenvalues[2])
     /\ Ge(eg.eigenvalues[2], eg.eigenvalues[3])
     /\ \E pm \in Perms3 : \A k \in 1..3 :
           /\ eg.eigenvalues[k] = eg.matrix[pm[k]][pm[k]]
           /\ eg.eigenvectors[k] = Identity3[pm[k]]
     /\ eg.matrix = Diag(3, 2, 1) =>
           /\ eg.eigenvalues = <<Fin(3 * Scale), Fin(2 * Scale), One>>
           /\ eg.eigenvectors = Identity3

C6_Witness == EigDone /\ eg.matrix = Diag(3, 2, 1)

\* entry (i, j) of V * diag(eigenvalues) * V-transpose
Reconstructed(i, j) ==
  Add(Add(Mul(Mul(eg.eigenvectors[1][i], eg.eigenvalues[1]), eg.eigenvectors[1][j]),
          Mul(Mul(eg.eigenvectors[2][i], eg.eigenvalues[2]), eg.eigenvectors[2][j])),
      Mul(Mul(eg.eigenvectors[3][i], eg.eigenvalues[3]), eg.eigenvectors[3][j]))

\* the tolerance of the reconstruction, 1e-2: a hundred steps of the resolution
\* of the number format, as 1e-6 is ten orders above the resolution of a double
RecTol == Scale \div 100

MaxInt(S) == IF S = {} THEN 0 ELSE CHOOSE y \in S : \A z \in S : z <= y
\* the largest magnitude of an entry, in whole units, at least 1
Magnitude(m) ==
  LET big == MaxInt({AbsInt(m[i][j].v) : i \in 1..3, j \in 1..3}) \div Scale
  IN IF big < 1 THEN 1 ELSE big

ReconstructsWithin(tol) ==
  \A i, j \in 1..3 :
     /\ IsFiniteNum(Reconstructed(i, j))
     /\ AbsInt(Reconstructed(i, j).v - eg.matrix[i][j].v) <= tol

MaxMembers == 3

Pos(x, y, z) == <<Fin(x * Scale), Fin(y * Scale), Fin(z * Scale)>>
\* the positions members are drawn from: coincident, colinear and coplanar
\* groups, a general one, a far one, and non-finite coordinates
EllPositions ==
  <<Pos(0, 0, 0), Pos(3, 0, 0), Pos(6, 0, 0), Pos(0, 4, 0), Pos(1, 2, 3),
    <<Big, Zero, Zero>>, <<NaN, Zero, Zero>>, <<PInf, One, One>>>>

\* groups of n members, as non-decreasing index sequences into EllPositions
RECURSIVE GroupsOfSize(_)
GroupsOfSize(n) ==
  IF n = 0 THEN {<<>>}
  ELSE {Append(g, k) : g \in GroupsOfSize(n - 1), k \in 1..Len(EllPositions)}
EllGroups ==
  {[k \in 1..Len(g) |-> EllPositions[g[k]]] :
     g \in {h \in UNION {GroupsOfSize(n) : n \in 0..MaxMembers} :
              \A k \in 1..(Len(h) - 1) : h[k] <= h[k + 1]}}

EllInit ==
  /\ WebIdle
  /\ cs = Idle
  /\ eg = Idle
  /\ pj = Idle
  /\ el \in {[pc |-> "entry", members |-> g, centroid |-> <<>>, cov |-> <<>>,
              radii |-> <<>>, rotation |-> <<>>, ret |-> "none"] : g \in EllGroups}

\* lines 71-73
EllReturnNull ==
  /\ el.pc = "entry"
  /\ Len(el.members) = 0
  /\ el' = [el EXCEPT !.pc = "done", !.ret = "null"]
  /\ UNCHANGED eg
  /\ UNCHANGED <<cs, pj>>
  /\ UNCHANGED web

\* lines 81-92
EllCentroid ==
  /\ el.pc = "entry"
  /\ Len(el.members) # 0
  /\ el' = [el EXCEPT !.pc = "covariance", !.centroid = Centroid(el.members)]
  /\ UNCHANGED eg
  /\ UNCHANGED <<cs, pj>>
  /\ UNCHANGED web

\* lines 94-126: build the covariance matrix and call computeEigendecomposition
EllCovariance ==
  /\ el.pc = "covariance"
  /\ LET cov == Covariance(el.members, el.centroid)
     IN /\ el' = [el EXCEPT !.pc = "eigen", !.cov = cov]
        /\ eg' = EigEntry(cov)
  /\ UNCHANGED <<cs, pj>>
  /\ UNCHANGED web

\* lines 128-147: radii, rotation, safety checks, return
EllRadii ==
  /\ el.pc = "eigen"
  /\ eg.pc = "done"
  /\ el' = [el EXCEPT !.pc = "done", !.ret = "geometry",
                      !.radii = <<Safety(Radius(eg.eigenvalues[1])),
                                  Safety(Radius(eg.eigenvalues[2])),
                                  Safety(Radius(eg.eigenvalues[3]))>>,
                      !.rotation = createRotationMatrix(eg.eigenvectors)]
  /\ UNCHANGED eg
  /\ UNCHANGED <<cs, pj>>
  /\ UNCHANGED web

EllNext ==
  \/ EllReturnNull
  \/ EllCentroid
  \/ EllCovariance
  \/ EigRotate
  \/ EigLoopExit
  \/ EigExtractSort
  \/ EllRadii

SpecEll == EllInit /\ [][EllNext]_vars

\* ------------------------------------------------------------------------
\* Properties of computeEllipsoidGeometry
\* ------------------------------------------------------------------------
EllReturned == el.pc = "done" /\ el.ret = "geometry"
FinitePosition(pos) == \A k \in 1..3 : IsFiniteNum(pos[k])

\* C8: for a group of exactly one member (a position of finite coordinates)
\* the centroid is that position, the three radii all equal 2.0 * 1.6 = 3.2,
\* and every entry of the rotation is finite.
C8_SingletonEllipsoid ==
  (EllReturned /\ Len(el.members) = 1 /\ FinitePosition(el.members[1])) =>
     /\ el.centroid = el.members[1]
     /\ \A k \in 1..3 : el.radii[k] = Lit(32, 10)
     /\ \A i, k \in 1..3 : IsFiniteNum(el.rotation[i][k])

C8_Witness ==
  /\ EllReturned
  /\ el.members = <<Pos(1, 2, 3)>>
  /\ el.radii = <<Lit(32, 10), Lit(32, 10), Lit(32, 10)>>

\* C9: for every non-empty group, whatever the positions, each of the three
\* radii is a finite number that is at least MIN_RADIUS = 2.0.
C9_RadiiFloor ==
  EllReturned =>
     \A k \in 1..3 : IsFiniteNum(el.radii[k]) /\ Ge(el.radii[k], MIN_RADIUS)

\* a group with a non-finite coordinate whose radius came from the safety check
C9_Witness ==
  /\ EllReturned
  /\ Len(el.members) = 2
  /\ \E k \in 1..2 : ~FinitePosition(el.members[k])
  /\ el.radii[1] = MIN_RADIUS

\* ------------------------------------------------------------------------
\* projectTo3D, call after call
\* ------------------------------------------------------------------------
NoSeed == [t |-> "none", v |-> 0]

\* argument lists of the calls: all sizes from 0 up, vectors of equal and of
\* mixed length, equal vectors, opposite vectors, NaN and Infinity entries,
\* a list whose seed sum is negative, a list whose seed (83885) puts two
\* initial points 0.047 apart, and five vectors with a net force above 2
PjInputs ==
  { <<>>,
    << <<One, Zero>> >>,
    << <<NaN>> >>,
    << <<One, Zero>>, <<Zero, One>> >>,
    << <<PInf>>, <<>> >>,
    << <<One, Zero>>, <<Zero, One>>, <<One, One>> >>,
    << <<One, One>>, <<One, One>>, <<One, One>> >>,
    << <<One, Zero>>, <<Num(-2), Zero>>, <<Zero, One>>, <<One, One>> >>,
    << <<NaN, One>>, <<One, Zero>>, <<Zero, One>> >>,
    << <<PInf, One>>, <<One, Zero>>, <<Zero, One>> >>,
    << <<Num(-100), Zero>>, <<One, Zero>>, <<Zero, One>> >>,
    << <<>>, <<One>>, <<One, One>> >>,
    << <<One, Zero>>, <<Num(-1), Zero>>, <<Zero, One>> >>,
    << <<One, Zero, PInf>>, <<One, Zero>>, <<Zero, One>> >>,
    << <<Add(Num(33), Lit(8855, 10000)), Zero>>, <<One, Zero>>, <<Zero, One>> >>,
    << <<Num(5), Zero>>, <<One, Zero>>, <<One, Zero>>, <<One, Zero>>, <<Num(-2), Zero>> >> }

PjInit ==
  /\ WebIdle
  /\ cs = Idle
  /\ eg = Idle
  /\ el = Idle
  /\ pj = [pc |-> "idle", embeddings |-> <<>>, seed |-> NoSeed, positions |-> <<>>,
           similarities |-> <<>>, forces |-> <<>>, iter |-> 0, ret |-> <<>>,
           kept |-> <<>>]

\* argument lists a caller passes again and compares the results of
PjRepeatInputs ==
  { << <<One, Zero>>, <<Zero, One>> >>,
    << <<One, Zero>>, <<Zero, One>>, <<One, One>> >>,
    << <<NaN, One>>, <<One, Zero>>, <<Zero, One>> >>,
    << <<Num(-100), Zero>>, <<One, Zero>>, <<Zero, One>> >> }

\* what the caller holds after a call returned: nothing, or the first result
\* it chose to hold, with whether a call of another list returned since
Keep(kept, embeddings, ret) ==
  IF kept = <<>>
  THEN IF embeddings \in PjRepeatInputs
       THEN {<<>>, <<[embeddings |-> embeddings, ret |-> ret, between |-> FALSE]>>}
       ELSE {<<>>}
  ELSE {<<[kept[1] EXCEPT !.between = @ \/ embeddings # kept[1].embeddings]>>}

\* the locals of a fresh call, line 177
Entered(state, embeddings) ==
  [state EXCEPT !.pc = "entry", !.embeddings = embeddings, !.positions = <<>>,
                !.similarities = <<>>, !.forces = <<>>, !.iter = 0, !.ret = <<>>]

\* line 177: the first call
PjCall ==
  /\ pj.pc = "idle"
  /\ \E embeddings \in PjInputs : pj' = Entered(pj, embeddings)
  /\ UNCHANGED <<cs, eg, el>>
  /\ UNCHANGED web

\* line 177: a later call
PjCallAgain ==
  /\ pj.pc = "returned"
  /\ \E embeddings \in PjRepeatInputs : pj' = Entered(pj, embeddings)
  /\ UNCHANGED <<cs, eg, el>>
  /\ UNCHANGED web

\* the call returns ret; the caller holds what it chose to
Returns(state, ret) ==
  {[state EXCEPT !.pc = "returned", !.ret = ret, !.kept = k] :
     k \in Keep(state.kept, state.embeddings, ret)}

\* lines 180-182
PjReturnDegenerate ==
  /\ pj.pc = "entry"
  /\ IsDegenerate(Len(pj.embeddings))
  /\ pj' \in Returns(pj, ClosedForm(Len(pj.embeddings)))
  /\ UNCHANGED <<cs, eg, el>>
  /\ UNCHANGED web

\* lines 185-188
PjSeed ==
  /\ pj.pc = "entry"
  /\ ~IsDegenerate(Len(pj.embeddings))
  /\ pj' = [pj EXCEPT !.pc = "init", !.seed = SeedForCall(pj.embeddings, pj.seed)]
  /\ UNCHANGED <<cs, eg, el>>
  /\ UNCHANGED web

\* line 201: the point pushed, the generator advanced
Pushed(state, p) ==
  [state EXCEPT !.seed = p.seed, !.positions = Append(@, p.position)]

\* lines 192-201, one iteration
PjInitPosition ==
  /\ pj.pc = "init"
  /\ Len(pj.positions) < Len(pj.embeddings)
  /\ pj' = Pushed(pj, InitialPosition(pj.seed))
  /\ UNCHANGED <<cs, eg, el>>
  /\ UNCHANGED web

\* lines 204-217
PjSimilarities ==
  /\ pj.pc = "init"
  /\ Len(pj.positions) = Len(pj.embeddings)
  /\ pj' = [pj EXCEPT !.pc = "pass", !.similarities = Similarities(pj.embeddings),
                      !.iter = 0]
  /\ UNCHANGED <<cs, eg, el>>
  /\ UNCHANGED web

\* lines 269-280: the positions moved by the forces of the pass
Moved(state, forces) ==
  [state EXCEPT !.forces = forces,
                !.positions = ApplyForces(state.positions, forces),
                !.iter = @ + 1]

\* line 221 with the loop left one pass early
LoopStopsEarly(iter) == iter < iterations - 1

\* line 221: the condition of the relaxation loop
LoopContinues(iter) == iter < iterations

\* lines 221-280: one pass, the forces from the positions at its start
PjPass ==
  /\ pj.pc = "pass"
  /\ LoopContinues(pj.iter)
  /\ pj' = Moved(pj, Forces(pj.positions, pj.similarities, pj.iter))
  /\ UNCHANGED <<cs, eg, el>>
  /\ UNCHANGED web

\* lines 294-300: the positions are centred in place and returned
ReturnsCentred(state, centred) ==
  Returns([state EXCEPT !.positions = centred], centred)

\* lines 282-300
PjCenter ==
  /\ pj.pc = "pass"
  /\ ~LoopContinues(pj.iter)
  /\ pj' \in ReturnsCentred(pj, Centered(pj.positions))
  /\ UNCHANGED <<cs, eg, el>>
  /\ UNCHANGED web

PjNext ==
  \/ PjCall
  \/ PjCallAgain
  \/ PjReturnDegenerate
  \/ PjSeed
  \/ PjInitPosition
  \/ PjSimilarities
  \/ PjPass
  \/ PjCenter

SpecProj == PjInit /\ [][PjNext]_vars

PjReturned == pj.pc = "returned"

NonFiniteEntry(embeddings) ==
  \E i \in 1..Len(embeddings) : \E k \in 1..Len(embeddings[i]) :
    ~IsFiniteNum(embeddings[i][k])

SpreadOut(positions) ==
  \A i, j \in 1..Len(positions) : i # j => positions[i] # positions[j]

\* C1: whatever the argument list holds, NaN and Infinity entries included,
\* every coordinate of every returned position is a finite number in [-15, 15]
C1_FiniteInRange ==
  PjReturned =>
    \A i \in 1..Len(pj.ret) : \A k \in 1..3 :
      /\ IsFiniteNum(pj.ret[i][k])
      /\ pj.ret[i][k].v >= -15 * Scale
      /\ pj.ret[i][k].v <= 15 * Scale

\* a list with an Infinity entry: its generator gave NaN from the first draw
\* on, and the call went through all its passes and returned
C1_Witness ==
  /\ PjReturned
  /\ ~IsDegenerate(Len(pj.embeddings))
  /\ NonFiniteEntry(pj.embeddings)
  /\ pj.seed = NaNSeed
  /\ pj.iter = iterations

\* C2: a call returns what an earlier call of the same list returned,
\* whatever calls came before and between the two
C2_SameInputSameOutput ==
  (PjReturned /\ pj.kept # <<>> /\ pj.kept[1].embeddings = pj.embeddings)
    => pj.ret = pj.kept[1].ret

\* a relaxed layout returned again after a call of another list
C2_Witness ==
  /\ PjReturned
  /\ pj.kept # <<>>
  /\ pj.kept[1].embeddings = pj.embeddings
  /\ pj.kept[1].between
  /\ ~IsDegenerate(Len(pj.embeddings))
  /\ SpreadOut(pj.ret)

\* the shape of a result: as many positions as vectors, 3 components each
C3_Shape ==
  PjReturned =>
    /\ Len(pj.ret) = Len(pj.embeddings)
    /\ \A i \in 1..Len(pj.ret) : DOMAIN pj.ret[i] = 1..3

\* a step of a call keeps every point at its index: a new point goes to the
\* end of the list, a pass moves point i by the force on point i, and
\* centering shifts point i by the common centre
C3_PointsStay ==
  /\ (pj.pc = "init" /\ pj'.pc = "init") =>
       /\ Len(pj'.positions) = Len(pj.positions) + 1
       /\ \A i \in 1..Len(pj.positions) : pj'.positions[i] = pj.positions[i]
  /\ (pj.pc = "init" /\ pj'.pc = "pass") =>
       /\ pj'.positions = pj.positions
       /\ \A i, j \in 1..Len(pj.embeddings) : i # j =>
            pj'.similarities[i][j] = cosineSimilarity(pj.embeddings[i], pj.embeddings[j])
  /\ (pj.pc = "pass" /\ pj'.pc = "pass") =>
       /\ Len(pj'.positions) = Len(pj.positions)
       /\ \A i \in 1..Len(pj.positions) : \A k \in 1..3 :
            pj'.positions[i][k] =
              clamp(Add(pj.positions[i][k], clamp(pj'.forces[i][k], Num(-2), Num(2))),
                    Num(-15), Num(15))
  /\ (pj.pc = "pass" /\ pj'.pc = "returned") =>
       /\ Len(pj'.ret) = Len(pj.positions)
       /\ \A i \in 1..Len(pj.positions) : \A k \in 1..3 :
            pj'.ret[i][k] =
              clamp(Sub(pj.positions[i][k], LayoutCentre(pj.positions)[k]),
                    Num(-15), Num(15))

\* C3: for every N >= 0 the result has N positions of 3 components, and
\* output[i] is the position of input[i]: no step adds, drops or reorders
C3_CountAndOrder == [] C3_Shape /\ [][C3_PointsStay]_vars

\* four vectors, returned as four distinct positions
C3_Witness ==
  /\ PjReturned
  /\ Len(pj.embeddings) = 4
  /\ Len(pj.ret) = 4
  /\ SpreadOut(pj.ret)

\* C4: 0, 1 and 2 vectors return [], [[0,0,0]] and [[-5,0,0],[5,0,0]],
\* whatever the vectors hold and without a relaxation pass
C4_ClosedForms ==
  (PjReturned /\ Len(pj.embeddings) <= 2) =>
    /\ Len(pj.embeddings) = 0 => pj.ret = <<>>
    /\ Len(pj.embeddings) = 1 => pj.ret = <<<<Zero, Zero, Zero>>>>
    /\ Len(pj.embeddings) = 2 =>
         pj.ret = <<<<Fin(-5 * Scale), Zero, Zero>>, <<Fin(5 * Scale), Zero, Zero>>>>
    /\ pj.iter = 0
    /\ pj.positions = <<>>
    /\ pj.forces = <<>>

\* two vectors, one with an Infinity entry and one empty
C4_Witness ==
  /\ PjReturned
  /\ Len(pj.embeddings) = 2
  /\ NonFiniteEntry(pj.embeddings)
  /\ pj.ret[2][1] = Fin(5 * Scale)

NonFiniteVector(a) == \E k \in 1..Len(a) : ~IsFiniteNum(a[k])

\* the similarity matrix of the call has been filled (line 214 passed)
PjCompared == pj.pc \in {"pass", "returned"} /\ pj.similarities # <<>>

\* C11: a vector with a NaN or Infinity entry has similarity 0 with every
\* other vector, and the ideal distance of such a pair is a finite number
C11_NonFiniteNeutral ==
  PjCompared =>
    \A i, j \in 1..Len(pj.embeddings) :
      (i # j /\ (NonFiniteVector(pj.embeddings[i]) \/ NonFiniteVector(pj.embeddings[j])))
        => /\ pj.similarities[i][j] = Zero
           /\ IsFiniteNum(IdealDist(pj.similarities[i][j]))

\* the sum of the returned positions on axis k, in units of the resolution
RECURSIVE AxisSum(_, _, _)
AxisSum(positions, k, i) ==
  IF i > Len(positions) THEN 0
  ELSE positions[i][k].v + AxisSum(positions, k, i + 1)

\* the mean of the returned positions is 0 on each axis, up to the rounding
\* of the division by n
MeanIsZero ==
  \A k \in 1..3 : AbsInt(AxisSum(pj.ret, k, 1)) <= Len(pj.ret)

\* no returned coordinate sits on a face of the cube
InsideCube ==
  \A i \in 1..Len(pj.ret) : \A k \in 1..3 : AbsInt(pj.ret[i][k].v) < 15 * Scale

\* C12 as stated: for N >= 3 the returned positions have mean 0 on each
\* axis, wherever the points were before centering
C12_CenteredAtOrigin ==
  (PjReturned /\ Len(pj.embeddings) >= 3) => MeanIsZero

\* C12, amended: for N >= 3 the returned positions have mean 0 on each axis
\* when the clamp after the subtraction leaves every coordinate inside the cube
C12_CenteredUnlessClipped ==
  (PjReturned /\ Len(pj.embeddings) >= 3 /\ InsideCube) => MeanIsZero

\* a relaxed layout, not clipped, returned centred
C12_Witness ==
  /\ PjReturned
  /\ Len(pj.embeddings) >= 3
  /\ InsideCube
  /\ SpreadOut(pj.ret)
  /\ MeanIsZero

\* ------------------------------------------------------------------------
\* the two core functions side by side: a behaviour is a sequence of calls of
\* projectTo3D or one call of computeEigendecomposition
\* ------------------------------------------------------------------------
CoreInit ==
  /\ WebIdle
  /\ cs = Idle
  /\ el = Idle
  /\ \/ /\ eg = Idle
        /\ pj = [pc |-> "idle", embeddings |-> <<>>, seed |-> NoSeed,
                 positions |-> <<>>, similarities |-> <<>>, forces |-> <<>>,
                 iter |-> 0, ret |-> <<>>, kept |-> <<>>]
     \/ /\ pj = [pc |-> "none"]
        /\ eg \in {EigEntry(m) : m \in EigInputs}

CoreNext ==
  \/ PjCall
  \/ PjCallAgain
  \/ PjReturnDegenerate
  \/ PjSeed
  \/ PjInitPosition
  \/ PjSimilarities
  \/ PjPass
  \/ PjCenter
  \/ EigRotate
  \/ EigLoopExit
  \/ EigExtractSort

SpecCore == CoreInit /\ [][CoreNext]_vars

\* no step of a call of projectTo3D changes a vector of its argument, and no
\* step of a call of computeEigendecomposition changes the caller's matrix
ArgumentsStay ==
  /\ pj.pc \in {"entry", "init", "pass"} => pj'.embeddings = pj.embeddings
  /\ eg.pc \in {"loop", "extract"} => eg'.matrix = eg.matrix

\* C13: neither core function changes its argument: the vectors are the same
\* after projectTo3D, the nine entries of the matrix are the same after
\* computeEigendecomposition
C13_ArgumentsUnchanged == [][ArgumentsStay]_vars

\* a call that rotated its working matrix and returned, the caller's matrix
\* still symmetric with its off-diagonal entries
C13_Witness ==
  /\ eg.pc = "done"
  /\ eg.iter > 0
  /\ eg.a # eg.matrix
  /\ ~IsDiagonal(eg.matrix)

\* a pass is about to run on the positions of the state
PjBeforePass == pj.pc = "pass" /\ pj.iter < iterations

\* C14: for every pair and every similarity in [-1, 1] the ideal distance
\* (1 - similarity) * 20 + 2 lies between 2 and 22
C14_IdealDistRange ==
  PjCompared =>
    \A i, j \in 1..Len(pj.embeddings) :
      (i # j /\ IsFiniteNum(pj.similarities[i][j])) =>
         /\ Ge(IdealDist(pj.similarities[i][j]), Num(2))
         /\ Le(IdealDist(pj.similarities[i][j]), Num(22))

\* the distance value line 236 gives a pass for the pair (i, j)
DistUsed(i, j) == DistOf(DistSq(Vec3Sub(pj.positions[j], pj.positions[i])))

\* C15: the distance a pass uses for a pair, in the attraction term and as
\* the divisor of the direction, is never smaller than MIN_DIST = 0.1
C15_DistFloored ==
  PjBeforePass =>
    \A i, j \in 1..Len(pj.positions) : i < j => Ge(DistUsed(i, j), MIN_DIST)

\* after any relaxation pass no two points have identical positions
SpreadAfterPass ==
  (pj.pc = "pass" /\ pj.iter >= 1) => SpreadOut(pj.positions)

\* a pair that coincides at the start of a pass gets a non-zero force in it
CoincidentPairSeparates ==
  PjBeforePass =>
    \A i, j \in 1..Len(pj.positions) :
      (i < j /\ pj.positions[i] = pj.positions[j] /\ FinitePosition(pj.positions[i]))
        => PairForce(pj.positions, pj.similarities[i][j], i, j,
                     Mul(baseAttraction, Decay(pj.iter)),
                     Mul(baseRepulsion, Decay(pj.iter))) # <<Zero, Zero, Zero>>

\* C16: for N >= 3 no two points ever collapse onto each other: after any
\* pass no two positions are identical, and a pair that coincides at the start
\* of a pass is pushed apart by a non-zero force in that pass
C16_NoCollapse == SpreadAfterPass /\ CoincidentPairSeparates

\* C20: for every seed a call derives from its argument, every value of the
\* generator is in [0, 1) and every initial position is finite
C20_RandomInUnitInterval ==
  (pj.pc \in {"init", "pass"} /\ Len(pj.positions) >= 1 /\ pj.seed.t = "int") =>
     /\ IsFiniteNum(LcgValue(pj.seed))
     /\ LcgValue(pj.seed).v >= 0
     /\ LcgValue(pj.seed).v < Scale
     /\ pj.iter = 0 => \A i \in 1..Len(pj.positions) : FinitePosition(pj.positions[i])

\* the force on point i of a pass, from the positions at its start: the
\* pairs (j, i) with j < i take their force from i, the pairs (i, j) add it
RECURSIVE NetForce(_, _, _, _, _, _)
NetForce(positions, similarities, iter, i, j, acc) ==
  IF j > Len(positions) THEN acc
  ELSE NetForce(positions, similarities, iter, i, j + 1,
         IF j = i THEN acc
         ELSE IF i < j
              THEN Vec3Add(acc, PairForce(positions, similarities[i][j], i, j,
                                          Mul(baseAttraction, Decay(iter)),
                                          Mul(baseRepulsion, Decay(iter))))
              ELSE Vec3Sub(acc, PairForce(positions, similarities[j][i], j, i,
                                          Mul(baseAttraction, Decay(iter)),
                                          Mul(baseRepulsion, Decay(iter)))))

\* a pass is synchronous: its force buffer is the sum, from zero, of the pair
\* forces at the start-of-pass positions, and every position is written from
\* its start-of-pass value and that buffer
PassIsSynchronous ==
  (pj.pc = "pass" /\ pj'.pc = "pass") =>
    \A i \in 1..Len(pj.positions) :
      /\ pj'.forces[i] = NetForce(pj.positions, pj.similarities, pj.iter, i, 1,
                                  <<Zero, Zero, Zero>>)
      /\ \A k \in 1..3 :
           pj'.positions[i][k] = MoveCoord(pj.positions[i][k], pj'.forces[i][k])

ForcesFinite(forces) ==
  \A i \in 1..Len(forces) : \A k \in 1..3 : IsFiniteNum(forces[i][k])

\* the forces sum to the zero vector, up to one unit of rounding per point
ForcesBalanced(forces) ==
  /\ ForcesFinite(forces)
  /\ \A k \in 1..3 : AbsInt(AxisSum(forces, k, 1)) <= Len(forces)

\* every pass is synchronous, and the forces of a pass whose pair forces are
\* all finite sum to the zero vector
SynchronousPassHolds ==
  [][PassIsSynchronous /\
     ((pj.pc = "pass" /\ pj'.pc = "pass" /\ ForcesFinite(pj'.forces))
        => ForcesBalanced(pj'.forces))]_vars

\* C17: the force buffer of a pass is accumulated from zero over all pairs,
\* each pair adding equal and opposite vectors, so the unclamped net forces
\* of the pass sum to the zero vector
C17_ForcesSumToZero ==
  (pj.pc \in {"pass", "returned"} /\ pj.forces # <<>>) => ForcesBalanced(pj.forces)

\* a step that is one relaxation pass
PassStep == pj.pc = "pass" /\ pj'.pc = "pass"

\* one component after a pass: inside the cube, and within 2 of a finite
\* value it had before the pass
ComponentBounded(before, after) ==
  /\ IsFiniteNum(after)
  /\ AbsInt(after.v) <= MAX_COORD.v
  /\ IsFiniteNum(before) => AbsInt(after.v - before.v) <= Two.v

\* C18: at the end of every relaxation pass every position component is in
\* [-15, 15], and every component that was finite before the pass differs
\* from its value before the pass by at most 2
C18_PassBounded ==
  [][PassStep => \A i \in 1..Len(pj.positions) : \A k \in 1..3 :
                   ComponentBounded(pj.positions[i][k], pj'.positions[i][k])]_vars

\* a pass has ended whose net force on some point exceeded 2 in some component
C18_Witness ==
  /\ pj.pc = "pass"
  /\ pj.iter >= 1
  /\ \E i \in 1..Len(pj.forces) : \E k \in 1..3 :
       IsFiniteNum(pj.forces[i][k]) /\ AbsInt(pj.forces[i][k].v) > Two.v

\* a step inside a call of projectTo3D: the call is one synchronous run of
\* straight-line code and counted loops, so a call that has been entered
\* keeps taking steps until it returns
PjRuns ==
  \/ PjReturnDegenerate
  \/ PjSeed
  \/ PjInitPosition
  \/ PjSimilarities
  \/ PjPass
  \/ PjCenter

\* a call is running
InCall == pj.pc \in {"entry", "init", "pass"}

\* the guards of the steps inside a call: some step of PjRuns can be taken
PjCanStep ==
  \/ pj.pc = "entry"
  \/ pj.pc = "init" /\ Len(pj.positions) <= Len(pj.embeddings)
  \/ pj.pc = "pass"

\* weak fairness of PjRuns, WF_vars(PjRuns), with ENABLED <<PjRuns>>_vars
\* written as InCall: a running call is not suspended for ever
RunsToCompletion == []<>(~InCall) \/ []<><<PjRuns>>_vars

SpecProjFair == SpecProj /\ RunsToCompletion

\* the passes of a call are counted from 0 by one, a pass is only run below
\* the budget, and the centering step that returns comes after pass 150
PassesCounted ==
  /\ (pj.pc # "pass" /\ pj'.pc = "pass") => pj'.iter = 0
  /\ PassStep => (pj.iter < iterations /\ pj'.iter = pj.iter + 1)
  /\ (pj.pc = "pass" /\ pj'.pc = "returned") =>
        (pj.iter = iterations /\ pj'.iter = iterations)

\* C19: for N >= 3 a call runs exactly 150 relaxation passes, with no early
\* exit and no extra pass, then centres once and returns; every call that
\* is entered returns
C19_AllPassesThenReturn ==
  /\ [][PassesCounted]_vars
  /\ []((PjReturned /\ Len(pj.embeddings) >= 3) => pj.iter = iterations)
  /\ [](InCall => PjCanStep)
  /\ (pj.pc = "entry" ~> PjReturned)

\* a call with three or more vectors has returned after its 150 passes
C19_Witness ==
  /\ PjReturned
  /\ Len(pj.embeddings) >= 3
  /\ pj.iter = iterations
  /\ pj.ret = pj.positions

\* ------------------------------------------------------------------------
\* Termination and the pivot of computeEigendecomposition
\* ------------------------------------------------------------------------
\* a call of computeEigendecomposition is running
EigRunning == eg.pc \in {"loop", "extract"}

\* a call of computeEllipsoidGeometry is running
EllRunning == el.pc \in {"entry", "covariance", "eigen"}

\* computeEigendecomposition called on its own, or by computeEllipsoidGeometry
\* with the covariance matrix of a group (non-finite entries included)
JacobiInit == EigInit \/ EllInit

\* weak fairness of EllNext, WF_vars(EllNext), with ENABLED <<EllNext>>_vars
\* written as EigRunning \/ EllRunning: both calls are synchronous code that
\* is not suspended
JacobiRunsToCompletion ==
  []<>(~(EigRunning \/ EllRunning)) \/ []<><<EllNext>>_vars

SpecJacobi == JacobiInit /\ [][EllNext]_vars

SpecJacobiFair == SpecJacobi /\ JacobiRunsToCompletion

\* a step that is one Jacobi rotation
RotationStep == eg.pc = "loop" /\ eg'.pc = "loop" /\ eg'.iter = eg.iter + 1

\* every off-diagonal entry of the working matrix is below 1e-10 in magnitude
OffDiagonalBelow(a) ==
  \A i, j \in 1..3 : i < j => Lt(Abs(a[i][j]), Fin(EPSILON))

\* the rotations are counted, a rotation is only made below the budget and
\* with an off-diagonal entry at or above the threshold, and a loop whose
\* off-diagonal entries are all below it is left without another rotation
RotationsBounded ==
  /\ RotationStep =>
       /\ eg.iter < MAX_ITERATIONS
       /\ \E i, j \in 1..3 : i < j /\ Ge(Abs(eg.a[i][j]), Fin(EPSILON))
  /\ (eg.pc = "loop" /\ OffDiagonalBelow(eg.a)) =>
       (eg'.a = eg.a /\ eg'.v = eg.v /\ eg'.iter = eg.iter)
  /\ eg.pc \in {"extract", "done"} => eg'.iter = eg.iter

\* C21: computeEigendecomposition terminates for every input after at most
\* 50 Jacobi rotations, and it performs no further rotation once the largest
\* absolute off-diagonal entry of the working matrix is below 1e-10
C21_TerminatesWithinBudget ==
  /\ [](EigRunning => eg.iter <= MAX_ITERATIONS)
  /\ [][RotationsBounded]_vars
  /\ (eg.pc = "loop" ~> EigDone)

\* a call that rotated several times, converged below the budget and returned
C21_Witness ==
  /\ EigDone
  /\ eg.iter >= 3
  /\ eg.iter < MAX_ITERATIONS
  /\ OffDiagonalBelow(eg.a)

Symmetric(a) == \A i, j \in 1..3 : a[i][j] = a[j][i]

\* no off-diagonal entry of a is larger in magnitude than the entry at (p, q)
LargestOffDiagonal(a, p, q) ==
  /\ ~IsNaN(a[p][q])
  /\ \A i, j \in 1..3 : i # j => ~Gt(Abs(a[i][j]), Abs(a[p][q]))

\* the pivot of a rotation and the working matrix after it
PivotZeroed(before, after, p, q) ==
  /\ p < q
  /\ LargestOffDiagonal(before, p, q)
  /\ after[p][q] = Zero
  /\ after[q][p] = Zero
  /\ Symmetric(after)

\* C22: in every iteration that rotates, the pivot (p, q) with p < q is an
\* off-diagonal position of largest absolute value in the working matrix, and
\* after the rotation a[p][q] = a[q][p] = 0 and the working matrix is symmetric
C22_PivotLargestAndZeroed ==
  [][RotationStep => PivotZeroed(eg.a, eg'.a, eg'.pivot[1], eg'.pivot[2])]_vars

\* a rotation has been made about a pivot other than the initial pair, and it
\* left the other off-diagonal entries non-zero
C22_Witness ==
  /\ eg.pc = "loop"
  /\ eg.iter >= 1
  /\ eg.pivot = <<2, 3>>
  /\ eg.a[2][3] = Zero
  /\ eg.a[1][2] # Zero
  /\ eg.a[1][3] # Zero

\* ------------------------------------------------------------------------
\* The covariance matrix and the radii of computeEllipsoidGeometry
\* ------------------------------------------------------------------------
\* the sum over the members of the product of deviations on axes a and b
RECURSIVE DeviationProducts(_, _, _, _, _, _)
DeviationProducts(members, centroid, a, b, k, acc) ==
  IF k > Len(members) THEN acc
  ELSE DeviationProducts(members, centroid, a, b, k + 1,
         Add(acc, Mul(Sub(members[k][a], centroid[a]),
                      Sub(members[k][b], centroid[b]))))

\* the mean over the members of the product of deviations on axes a and b
MeanProduct(members, centroid, a, b) ==
  Div(DeviationProducts(members, centroid, a, b, 1, Zero), Num(Len(members)))

\* two numbers of the format equal up to the rounding of one division
Near(x, y) == IsFiniteNum(x) /\ IsFiniteNum(y) /\ AbsInt(x.v - y.v) <= 2

\* the covariance matrix has been built, from finite values
CovarianceBuilt ==
  /\ el.pc \in {"eigen", "done"}
  /\ el.cov # <<>>
  /\ \A i, j \in 1..3 : IsFiniteNum(el.cov[i][j])

\* the matrix is symmetric, entry (a, b) is the mean product of deviations,
\* plus added on the diagonal
CovarianceIs(added) ==
  /\ Symmetric(el.cov)
  /\ \A a, b \in 1..3 :
       Near(el.cov[a][b],
            IF a = b THEN Add(MeanProduct(el.members, el.centroid, a, a), added)
            ELSE MeanProduct(el.members, el.centroid, a, b))

\* C23: the covariance matrix of a group of n >= 1 points is symmetric, its
\* off-diagonal entry (a, b) is the mean product of the deviations from the
\* centroid, and its diagonal entry (a, a) is the mean squared deviation plus
\* the regularization epsilon 0.05, the same amount for every group size
C23_CovarianceRegularized == CovarianceBuilt => CovarianceIs(EllEPSILON)

\* what the code computes: the epsilon is divided by the group size with the
\* sums it was added to
CovarianceEpsilonOverN ==
  CovarianceBuilt => CovarianceIs(Div(EllEPSILON, Num(Len(el.members))))

\* the radii are positive and descending
RadiiDescending ==
  /\ \A k \in 1..3 : IsFiniteNum(el.radii[k]) /\ Gt(el.radii[k], Zero)
  /\ Ge(el.radii[1], el.radii[2])
  /\ Ge(el.radii[2], el.radii[3])

\* radius k and column k of the rotation come from eigenpair k
RadiiPaired ==
  \A k \in 1..3 :
    /\ el.radii[k] = Safety(Radius(eg.eigenvalues[k]))
    /\ \A i \in 1..3 : el.rotation[i][k] = eg.eigenvectors[k][i]

\* C24: for every non-empty group the three radii are positive and in
\* descending order, radii[k] belonging to the k-th eigenvector of the rotation
C24_RadiiDescending == EllReturned => (RadiiDescending /\ RadiiPaired)

\* the same for the groups whose covariance matrix and eigenvalues are finite
RadiiDescendingWhenFinite ==
  (EllReturned /\ CovarianceBuilt /\ \A k \in 1..3 : IsFiniteNum(eg.eigenvalues[k]))
     => (RadiiDescending /\ RadiiPaired)

\* ------------------------------------------------------------------------
\* The rotation built from the sorted eigenvectors
\* ------------------------------------------------------------------------
\* the determinant of a 3 x 3 matrix, by the first row
Det3(m) ==
  Add(Sub(Mul(m[1][1], Sub(Mul(m[2][2], m[3][3]), Mul(m[2][3], m[3][2]))),
          Mul(m[1][2], Sub(Mul(m[2][1], m[3][3]), Mul(m[2][3], m[3][1])))),
      Mul(m[1][3], Sub(Mul(m[2][1], m[3][2]), Mul(m[2][2], m[3][1]))))

\* the dot product of columns k and l
ColumnDot(m, k, l) ==
  Add(Add(Mul(m[1][k], m[1][l]), Mul(m[2][k], m[2][l])), Mul(m[3][k], m[3][l]))

\* 1e-2, the tolerance of orthonormality in the number format
OrthoTol == Scale \div 100

WithinOf(x, target, tol) == IsFiniteNum(x) /\ AbsInt(x.v - target) <= tol

\* the columns have unit length and are orthogonal to each other
Orthonormal(m) ==
  \A k, l \in 1..3 : WithinOf(ColumnDot(m, k, l), IF k = l THEN Scale ELSE 0, OrthoTol)

\* the rotation of the ellipsoid, from the eigenvectors in returned order
ReturnedBasis == createRotationMatrix(eg.eigenvectors)

\* C25: the three eigenvectors in returned (sorted) order, as the columns of
\* the ellipsoid's rotation, always form a rotation: an orthonormal basis of
\* determinant +1, never a reflection, also when the sort reorders the pairs
C25_ProperRotation ==
  EigDone => (Orthonormal(ReturnedBasis) /\ WithinOf(Det3(ReturnedBasis), Scale, OrthoTol))

\* what the code does give: an orthonormal basis, of determinant +1 or -1
OrthonormalBasisHolds ==
  EigDone =>
    /\ Orthonormal(ReturnedBasis)
    /\ \/ WithinOf(Det3(ReturnedBasis), Scale, OrthoTol)
       \/ WithinOf(Det3(ReturnedBasis), -Scale, OrthoTol)

\* ------------------------------------------------------------------------
\* buildGeneratedSlice and the projection cache (page.tsx 125-163)
\* A string is the sequence of its characters; a Map is the sequence of its
\* entries in insertion order.
\* ------------------------------------------------------------------------
DigitChars == <<"0", "1", "2", "3", "4", "5", "6", "7", "8", "9">>

\* String(n) for an integer n >= 0
RECURSIVE NumberToString(_)
NumberToString(n) ==
  IF n < 10 THEN <<DigitChars[n + 1]>>
  ELSE Append(NumberToString(n \div 10), DigitChars[(n % 10) + 1])

\* line 149: ids.join('-')
RECURSIVE JoinIds(_, _)
JoinIds(ids, k) ==
  IF k > Len(ids) THEN <<>>
  ELSE IF k = 1 THEN NumberToString(ids[1]) \o JoinIds(ids, 2)
  ELSE <<"-">> \o NumberToString(ids[k]) \o JoinIds(ids, k + 1)

\* a string as a condition: the empty string is falsy
Truthy(str) == str # <<>>

\* line 142: the nodes that have an embedding, in order
RECURSIVE WithEmbeddings(_, _)
WithEmbeddings(nodes, k) ==
  IF k > Len(nodes) THEN <<>>
  ELSE IF nodes[k].embedded THEN <<nodes[k]>> \o WithEmbeddings(nodes, k + 1)
  ELSE WithEmbeddings(nodes, k + 1)

\* line 149
CacheKey(nodes) == JoinIds([k \in 1..Len(nodes) |-> nodes[k].id], 1)

\* Map.prototype.has / get
MapHas(entries, key) == \E k \in 1..Len(entries) : entries[k].key = key

\* Map.prototype.set: a new key goes to the end, a present key keeps its place
MapSet(entries, key, value) ==
  IF MapHas(entries, key)
  THEN [k \in 1..Len(entries) |->
          IF entries[k].key = key THEN [key |-> key, value |-> value] ELSE entries[k]]
  ELSE Append(entries, [key |-> key, value |-> value])

\* Map.prototype.delete
RECURSIVE MapDelete(_, _, _)
MapDelete(entries, key, k) ==
  IF k > Len(entries) THEN <<>>
  ELSE IF entries[k].key = key THEN MapDelete(entries, key, k + 1)
  ELSE <<entries[k]>> \o MapDelete(entries, key, k + 1)

\* line 160 with the newest key taken instead of the oldest
MapLastKey(entries) == entries[Len(entries)].key
\* line 160: keys().next().value, the key inserted first
MapFirstKey(entries) == entries[1].key

\* line 159: the size the cache may not exceed
CacheLimit == 10

\* lines 158-162
LimitCache(entries) ==
  IF Len(entries) > CacheLimit /\ Truthy(MapFirstKey(entries))
  THEN MapDelete(entries, MapFirstKey(entries), 1)
  ELSE entries

Node(id, embedded) == [id |-> id, embedded |-> embedded]

\* the node lists whose keys differ, in the order in which they first occur
\* (which list is met first does not matter to the cache)
KeyedNodeLists ==
  << <<Node(1, TRUE)>>, <<Node(2, TRUE)>>, <<Node(1, TRUE), Node(2, TRUE)>>,
     <<Node(12, TRUE)>>, <<Node(3, TRUE)>>, <<Node(1, TRUE), Node(3, TRUE)>>,
     <<Node(2, TRUE), Node(3, TRUE)>>,
     <<Node(1, TRUE), Node(2, TRUE), Node(3, TRUE)>>, <<Node(4, TRUE)>>,
     <<Node(0, TRUE)>>, <<Node(10, TRUE)>>, <<Node(5, TRUE), Node(6, FALSE)>>,
     <<Node(7, FALSE), Node(8, TRUE)>> >>

\* node lists that bring no key of their own: no nodes, no embeddings, and a
\* list that shares its key with the first one
OtherNodeLists ==
  { <<>>, <<Node(9, FALSE)>>, <<Node(1, TRUE), Node(9, FALSE)>> }

\* most projections computed in a run of the page
MaxMisses == 14

CacheInit ==
  /\ cs = Idle
  /\ eg = Idle
  /\ el = Idle
  /\ pj = Idle
  /\ hook = Idle
  /\ gen = Idle
  /\ projectionCache = [pc |-> "ready", entries |-> <<>>, met |-> 0, misses |-> 0,
                        last |-> [kind |-> "none", key |-> <<>>]]

\* the calls that can come next: a node list met before, the next one not
\* yet met, or one of the others; met is the count of keyed lists met after it
SliceCalls ==
  {[nodes |-> KeyedNodeLists[k],
    met |-> IF k > projectionCache.met THEN k ELSE projectionCache.met] :
     k \in {l \in 1..Len(KeyedNodeLists) : l <= projectionCache.met + 1}}
  \cup {[nodes |-> l, met |-> projectionCache.met] : l \in OtherNodeLists}

\* lines 137-146: nothing to project
SliceReturnsEmpty ==
  /\ \E call \in SliceCalls :
       /\ Len(WithEmbeddings(call.nodes, 1)) = 0
       /\ projectionCache' =
            [projectionCache EXCEPT !.last = [kind |-> "empty", key |-> <<>>],
                                    !.met = call.met]
  /\ UNCHANGED <<cs, eg, el, pj, hook, gen>>

\* lines 152-153 and 165 on: the projection of these nodes is in the cache
Hit(cache, key, met) ==
  [cache EXCEPT !.last = [kind |-> "hit", key |-> key], !.met = met]

SliceHits ==
  /\ \E call \in SliceCalls :
       /\ Len(WithEmbeddings(call.nodes, 1)) > 0
       /\ MapHas(projectionCache.entries, CacheKey(WithEmbeddings(call.nodes, 1)))
       /\ projectionCache' =
            Hit(projectionCache, CacheKey(WithEmbeddings(call.nodes, 1)), call.met)
  /\ UNCHANGED <<cs, eg, el, pj, hook, gen>>

\* lines 153-163: the projection is computed, stored, and the cache limited;
\* the stored value stands for the positions, one for each node
Missed(cache, key, count, met) ==
  [cache EXCEPT !.entries = LimitCache(MapSet(@, key, count)),
                !.misses = @ + 1,
                !.last = [kind |-> "miss", key |-> key],
                !.met = met]

SliceMisses ==
  /\ projectionCache.misses < MaxMisses
  /\ \E call \in SliceCalls :
       /\ Len(WithEmbeddings(call.nodes, 1)) > 0
       /\ ~MapHas(projectionCache.entries, CacheKey(WithEmbeddings(call.nodes, 1)))
       /\ projectionCache' =
            Missed(projectionCache, CacheKey(WithEmbeddings(call.nodes, 1)),
                   Len(WithEmbeddings(call.nodes, 1)), call.met)
  /\ UNCHANGED <<cs, eg, el, pj, hook, gen>>

CacheNext ==
  \/ SliceReturnsEmpty
  \/ SliceHits
  \/ SliceMisses

SpecCache == CacheInit /\ [][CacheNext]_vars

CacheKeys(entries) == {entries[k].key : k \in 1..Len(entries)}

\* a call that stored a projection: below the limit the entry is added at the
\* end; at the limit the entry inserted first goes, the others keep their
\* order, and the new entry is the last one
StoredAndLimited(old, new, key) ==
  /\ key \notin CacheKeys(old)
  /\ new[Len(new)].key = key
  /\ IF Len(old) < CacheLimit
     THEN SubSeq(new, 1, Len(new) - 1) = old
     ELSE /\ Len(new) = CacheLimit
          /\ SubSeq(new, 1, CacheLimit - 1) = SubSeq(old, 2, CacheLimit)

CacheStep ==
  IF projectionCache'.last.kind = "miss" /\ projectionCache'.misses # projectionCache.misses
  THEN StoredAndLimited(projectionCache.entries, projectionCache'.entries,
                        projectionCache'.last.key)
  ELSE projectionCache'.entries = projectionCache.entries

\* C26: after every call of buildGeneratedSlice the projection cache holds at
\* most 10 entries; when a new key makes it exceed 10, exactly the entry
\* inserted first is removed and the entry just inserted stays
C26_CacheBounded ==
  /\ [](Len(projectionCache.entries) <= CacheLimit)
  /\ [][CacheStep]_vars

\* the cache is full, a call has just evicted the first list's entry, and the
\* entry it stored is the last one
C26_Witness ==
  /\ Len(projectionCache.entries) = CacheLimit
  /\ projectionCache.misses > CacheLimit
  /\ projectionCache.last.kind = "miss"
  /\ projectionCache.entries[CacheLimit].key = projectionCache.last.key
  /\ CacheKey(KeyedNodeLists[1]) \notin CacheKeys(projectionCache.entries)

\* ------------------------------------------------------------------------
\* useGeneratedData (part_011 343-460)
\* A fetch is one call of fetchData: the three requests, their controller and
\* the continuation that waits for them.  Its stage is "fetching" (line 371),
\* "parsing" (line 393) or "rejecting" (aborted, the AbortError not yet
\* caught) while it is in flight, and then the way it ended: "set" (lines
\* 404-406), "failed" (lines 413-416), "ignored" (line 410) or "stale" (lines
\* 386 and 401).  Code that runs without awaiting is one step; a rejection by
\* abort is caught before any other event is handled.
\* ------------------------------------------------------------------------
NoTopic == "null"
Topics == {"A", "B"}

\* most calls of fetchData in a run
MaxFetches == 4

HookInit ==
  /\ cs = Idle
  /\ eg = Idle
  /\ el = Idle
  /\ pj = Idle
  /\ projectionCache = Idle
  /\ gen = Idle
  /\ hook = [topic |-> NoTopic, currentTopicRef |-> NoTopic, abortControllerRef |-> 0,
             data |-> "empty", error |-> "null", isLoading |-> FALSE,
             fetches |-> <<>>]

\* line 400 with the check left out
AlwaysCurrent(ref, topicToFetch) == TRUE
\* line 400: the final check before the data is set
StillCurrent(ref, topicToFetch) == ref = topicToFetch

\* lines 419-421: the finally block
LoadingAfter(state, topicToFetch) ==
  IF state.currentTopicRef = topicToFetch THEN FALSE ELSE state.isLoading

\* lines 413-416: the error after a failure that is not an abort
ErrorAfter(state, topicToFetch) ==
  IF state.currentTopicRef = topicToFetch THEN "failed" ELSE state.error

\* AbortController.abort() as one fetch sees it: a pending request rejects;
\* a body that is being read rejects too, unless it had been read to the end
\* (landed), and then json() resolves as if nothing had happened; a second
\* abort of the same controller does nothing
Aborted(f, landed) ==
  IF f.aborted THEN f
  ELSE IF f.stage = "fetching" \/ (f.stage = "parsing" /\ ~landed)
  THEN [f EXCEPT !.stage = "rejecting", !.aborted = TRUE]
  ELSE [f EXCEPT !.aborted = TRUE]

\* lines 356-358 and 440-442: the controller of the ref, if any, is aborted
AbortCurrent(state, landed) ==
  IF state.abortControllerRef = 0 THEN state.fetches
  ELSE [state.fetches EXCEPT ![state.abortControllerRef] = Aborted(@, landed)]

\* lines 354-382: fetchData up to its first await
FetchStarted(state, topicToFetch, landed) ==
  [state EXCEPT
     !.fetches = Append(AbortCurrent(state, landed),
                        [topic |-> topicToFetch, stage |-> "fetching", aborted |-> FALSE]),
     !.abortControllerRef = Len(state.fetches) + 1,
     !.isLoading = TRUE,
     !.error = "null"]

\* no rejection by abort is waiting to be caught
Quiet == \A k \in 1..Len(hook.fetches) : hook.fetches[k].stage # "rejecting"

\* lines 425-434 and 439-443: the topic becomes null; the cleanup of the
\* effect before aborts, the effect clears the data
TopicCleared ==
  /\ Quiet
  /\ hook.topic # NoTopic
  /\ \E landed \in BOOLEAN :
       hook' = [hook EXCEPT !.topic = NoTopic, !.currentTopicRef = NoTopic,
                            !.fetches = AbortCurrent(hook, landed),
                            !.data = "empty", !.error = "null"]
  /\ UNCHANGED <<cs, eg, el, pj, projectionCache, gen>>

\* lines 425-426 and 436-443: the topic becomes another topic; the cleanup of
\* the effect before aborts, the effect sets the ref and calls fetchData
TopicChanged ==
  /\ Quiet
  /\ Len(hook.fetches) < MaxFetches
  /\ \E t \in Topics \ {hook.topic} : \E landed \in BOOLEAN :
       hook' = FetchStarted([hook EXCEPT !.topic = t, !.currentTopicRef = t], t, landed)
  /\ UNCHANGED <<cs, eg, el, pj, projectionCache, gen>>

\* lines 446-450
Refetch ==
  /\ Quiet
  /\ hook.topic # NoTopic
  /\ Len(hook.fetches) < MaxFetches
  /\ \E landed \in BOOLEAN : hook' = FetchStarted(hook, hook.topic, landed)
  /\ UNCHANGED <<cs, eg, el, pj, projectionCache, gen>>

\* lines 417-421: a fetch that set no data ends, after its finally block
Ended(state, k, how, error) ==
  [state EXCEPT !.fetches[k].stage = how,
                !.error = error,
                !.isLoading = LoadingAfter(state, state.fetches[k].topic)]

\* lines 407-422: a failure that is not an abort
Failed(state, k) == Ended(state, k, "failed", ErrorAfter(state, state.fetches[k].topic))

\* lines 371-391: the three responses arrive with status ok, and the
\* continuation goes on to read the bodies (or returns: the topic changed)
ResponsesArrive ==
  /\ Quiet
  /\ \E k \in 1..Len(hook.fetches) :
       /\ hook.fetches[k].stage = "fetching"
       /\ hook' = IF hook.currentTopicRef # hook.fetches[k].topic
                  THEN Ended(hook, k, "stale", hook.error)
                  ELSE [hook EXCEPT !.fetches[k].stage = "parsing"]
  /\ UNCHANGED <<cs, eg, el, pj, projectionCache, gen>>

\* lines 371-391 and 407-422: a request fails, or a response is not ok
RequestFails ==
  /\ Quiet
  /\ \E k \in 1..Len(hook.fetches) :
       /\ hook.fetches[k].stage = "fetching"
       /\ hook' = Failed(hook, k)
  /\ UNCHANGED <<cs, eg, el, pj, projectionCache, gen>>

\* lines 404-406 and 417-421: the data is set and the loading flag cleared
DataSet(state, k, topicToFetch) ==
  [state EXCEPT !.fetches[k].stage = "set",
                !.data = topicToFetch,
                !.isLoading = LoadingAfter(state, topicToFetch)]

\* lines 393-406 and 417-422: the three bodies are parsed
BodiesArrive ==
  /\ Quiet
  /\ \E k \in 1..Len(hook.fetches) :
       /\ hook.fetches[k].stage = "parsing"
       /\ hook' = IF StillCurrent(hook.currentTopicRef, hook.fetches[k].topic)
                  THEN DataSet(hook, k, hook.fetches[k].topic)
                  ELSE Ended(hook, k, "stale", hook.error)
  /\ UNCHANGED <<cs, eg, el, pj, projectionCache, gen>>

\* lines 393-397 and 407-422: a body is not JSON
ParsingFails ==
  /\ Quiet
  /\ \E k \in 1..Len(hook.fetches) :
       /\ hook.fetches[k].stage = "parsing"
       /\ hook' = Failed(hook, k)
  /\ UNCHANGED <<cs, eg, el, pj, projectionCache, gen>>

\* lines 407-411 and 417-422: the AbortError is caught and ignored, and the
\* finally block runs
AbortCaught ==
  /\ \E k \in 1..Len(hook.fetches) :
       /\ hook.fetches[k].stage = "rejecting"
       /\ hook' = Ended(hook, k, "ignored", hook.error)
  /\ UNCHANGED <<cs, eg, el, pj, projectionCache, gen>>

HookNext ==
  \/ TopicCleared
  \/ TopicChanged
  \/ Refetch
  \/ ResponsesArrive
  \/ RequestFails
  \/ BodiesArrive
  \/ ParsingFails
  \/ AbortCaught

SpecHook == HookInit /\ [][HookNext]_vars

InFlight(f) == f.stage \in {"fetching", "parsing", "rejecting"}

\* a step of the continuation of fetch k: neither the topic nor the number
\* of fetches changes, and fetch k moves on
ContinuationStep(k) ==
  /\ hook'.topic = hook.topic
  /\ Len(hook'.fetches) = Len(hook.fetches)
  /\ hook'.fetches[k].stage # hook.fetches[k].stage

StaleFetchWritesNothing ==
  \A k \in 1..Len(hook.fetches) :
    (ContinuationStep(k) /\ hook.fetches[k].topic # hook.topic)
      => (hook'.data = hook.data /\ hook'.error = hook.error)

\* C27: a fetch started for a topic changes the data (communities, nodes,
\* edges) or the error only while that topic is the current one: no step of
\* the continuation of a fetch whose topic is not the current topic changes
\* data or error.
C27_StaleFetchWritesNothing == [][StaleFetchWritesNothing]_vars

\* the bodies of a fetch for another topic arrived after the topic had
\* changed, the fetch stopped at line 401, and the data is not its data
C27_Witness ==
  \E k \in 1..Len(hook.fetches) :
    /\ hook.fetches[k].stage = "stale"
    /\ hook.fetches[k].topic # hook.topic
    /\ hook.topic # NoTopic
    /\ hook.data # hook.fetches[k].topic

\* the most recently started fetch is for the current topic and in flight
LatestInFlight ==
  /\ Len(hook.fetches) > 0
  /\ hook.fetches[Len(hook.fetches)].topic = hook.topic
  /\ InFlight(hook.fetches[Len(hook.fetches)])

\* C28: isLoading is true whenever the most recently started fetch for the
\* current topic has neither completed nor failed; the end of an earlier
\* fetch never clears it while the latest fetch is in flight.
C28_LoadingWhileLatestInFlight == LatestInFlight => hook.isLoading

\* what does hold: the flag is only cleared by the end of a fetch for the
\* current topic
LoadingClearedByCurrentTopic ==
  (hook.isLoading /\ ~hook'.isLoading)
    => \E k \in 1..Len(hook.fetches) :
         ContinuationStep(k) /\ hook.fetches[k].topic = hook.topic
LoadingClearedByCurrentTopicHolds == [][LoadingClearedByCurrentTopic]_vars

NothingInFlight == \A k \in 1..Len(hook.fetches) : ~InFlight(hook.fetches[k])

\* C29: loading always ends: once every started fetch has completed, failed
\* or been aborted, isLoading is false (and nothing but a new fetch sets it).
C29_LoadingEnds == NothingInFlight => ~hook.isLoading

\* what does hold: with a topic set, loading has ended when every fetch has
LoadingEndsWithTopic == (NothingInFlight /\ hook.topic # NoTopic) => ~hook.isLoading

\* ------------------------------------------------------------------------
\* POST /api/generate (part_007 32-225)
\* The database holds, for each topic, the number of generated sets of rows
\* (communities, nodes, node-community links and edges written by one
\* transaction).  A request is at "check" (line 52), "generating" (line 86)
\* or "storing" (line 92) while it awaits, and then answered: "exists"
\* (lines 59-82), "created" (lines 183-200) or "failed" (lines 201-224).
\* Each await is a point where other requests run.
\* ------------------------------------------------------------------------

\* most requests in a run
MaxRequests == 3

GenInit ==
  /\ cs = Idle
  /\ eg = Idle
  /\ el = Idle
  /\ pj = Idle
  /\ projectionCache = Idle
  /\ hook = Idle
  /\ gen = [rows |-> [t \in Topics |-> 0], requests |-> <<>>]

\* lines 32-57: a request with a valid body arrives and asks for a generated
\* community of its topic
Post ==
  /\ Len(gen.requests) < MaxRequests
  /\ \E t \in Topics :
       gen' = [gen EXCEPT !.requests = Append(@, [topic |-> t, pc |-> "check"])]
  /\ UNCHANGED <<cs, eg, el, pj, projectionCache, hook>>

\* lines 52-57: findFirst on generatedFrom = topic, isGenerated = true
ExistingCommunity(rows, topic) == rows[topic] > 0

\* lines 52-86: the answer of findFirst arrives; the request answers
\* alreadyExists, or goes on to generate
FindFirstReturns ==
  /\ \E k \in 1..Len(gen.requests) :
       /\ gen.requests[k].pc = "check"
       /\ gen' = [gen EXCEPT !.requests[k].pc =
                    IF ExistingCommunity(gen.rows, gen.requests[k].topic)
                    THEN "exists" ELSE "generating"]
  /\ UNCHANGED <<cs, eg, el, pj, projectionCache, hook>>

\* lines 86-92: the generated network arrives and is prepared
NetworkGenerated ==
  /\ \E k \in 1..Len(gen.requests) :
       /\ gen.requests[k].pc = "generating"
       /\ gen' = [gen EXCEPT !.requests[k].pc = "storing"]
  /\ UNCHANGED <<cs, eg, el, pj, projectionCache, hook>>

\* lines 86-89 and 201-224: the generation throws
GenerationFails ==
  /\ \E k \in 1..Len(gen.requests) :
       /\ gen.requests[k].pc = "generating"
       /\ gen' = [gen EXCEPT !.requests[k].pc = "failed"]
  /\ UNCHANGED <<cs, eg, el, pj, projectionCache, hook>>

\* lines 92-200: the transaction commits its rows
TransactionCommits ==
  /\ \E k \in 1..Len(gen.requests) :
       /\ gen.requests[k].pc = "storing"
       /\ gen' = [gen EXCEPT !.requests[k].pc = "created",
                             !.rows[gen.requests[k].topic] = @ + 1]
  /\ UNCHANGED <<cs, eg, el, pj, projectionCache, hook>>

\* lines 92-176 and 201-224: the transaction is rolled back
TransactionFails ==
  /\ \E k \in 1..Len(gen.requests) :
       /\ gen.requests[k].pc = "storing"
       /\ gen' = [gen EXCEPT !.requests[k].pc = "failed"]
  /\ UNCHANGED <<cs, eg, el, pj, projectionCache, hook>>

GenNext ==
  \/ Post
  \/ FindFirstReturns
  \/ NetworkGenerated
  \/ GenerationFails
  \/ TransactionCommits
  \/ TransactionFails

SpecGen == GenInit /\ [][GenNext]_vars

Creators(t) ==
  {k \in 1..Len(gen.requests) : gen.requests[k].topic = t /\ gen.requests[k].pc = "created"}

\* C30: the data of a topic is generated and stored at most once: its rows
\* are created by one request, whatever the number of requests for it and
\* however they overlap.
C30_GeneratedOnce ==
  \A t \in Topics : gen.rows[t] <= 1 /\ Cardinality(Creators(t)) <= 1

\* what does hold: a request whose findFirst is answered after a commit for
\* its topic creates nothing, and the rows are those of the committed requests
CheckedAfterCommit ==
  \A k \in 1..Len(gen.requests) :
    (gen.requests[k].pc = "check" /\ gen.rows[gen.requests[k].topic] > 0
       /\ gen'.requests[k].pc # "check")
      => (gen'.requests[k].pc = "exists" /\ gen'.rows = gen.rows)
RowsOfCreators == \A t \in Topics : gen.rows[t] = Cardinality(Creators(t))
SequentialRequestsGenerateOnce == [][CheckedAfterCommit]_vars /\ []RowsOfCreators

====
